---- MODULE Spec2Model ----
(***************************************************************************)
(* A model of the task service of the Todo backend                         *)
(* (backend/services/task_service.py): the single-task mutation engine,    *)
(* the bulk operations and the query engine, over a relational store that  *)
(* is reached through one SQLAlchemy session.                              *)
(*                                                                         *)
(* Strings are sequences of one-character strings.  Optional values are    *)
(* sequences of length at most one: <<>> is None, <<x>> is the value x.    *)
(* Timestamps are small naturals.                                          *)
(***************************************************************************)
EXTENDS Integers, Sequences, FiniteSets, TLC

VARIABLES db, dirty, nextId, now, res, scan

vars == <<db, dirty, nextId, now, res, scan>>

-----------------------------------------------------------------------------
(* Bounds of the model *)

\* The table has room for rows 1..MaxId.
MaxId == 3
\* Rows the calls of Spec create: identifiers 1..MaxCreate are assigned.
MaxCreate == 2
\* The clock runs from 0 to MaxNow.
MaxNow == 1
\* The longest task_ids list of a bulk call.
MaxBulk == 2
\* Page sizes 1..MaxLimit and pages 1..MaxPage of a query.
MaxLimit == 3
MaxPage == 3

\* Program constants
TitleMax == 200
DescriptionMax == 1000
TagsMax == 10
TagMax == 50

Users == {"A", "B"}
Ids == 1..MaxId
Times == 0..MaxNow
Priorities == {"low", "medium", "high"}

None == <<>>
Some(x) == <<x>>
IsNone(o) == o = <<>>
IsSome(o) == o # <<>>
Val(o) == o[1]

-----------------------------------------------------------------------------
(* Strings *)

\* The character "#" stands for a block of TitleMax \div 2 non-blank
\* characters, so that strings longer than the limits can be written down.
Width(c) == IF c = "#" THEN TitleMax \div 2 ELSE 1

RECURSIVE StrLen(_)
StrLen(s) == IF s = <<>> THEN 0 ELSE Width(Head(s)) + StrLen(Tail(s))

IsSpace(c) == c = " "

RECURSIVE LStrip(_)
LStrip(s) == IF s # <<>> /\ IsSpace(Head(s)) THEN LStrip(Tail(s)) ELSE s

RECURSIVE RStrip(_)
RStrip(s) ==
    IF s # <<>> /\ IsSpace(s[Len(s)]) THEN RStrip(SubSeq(s, 1, Len(s) - 1)) ELSE s

\* str.strip()
Strip(s) == RStrip(LStrip(s))

\* str.lower() on the alphabet of the model
Lower(c) == IF c = "A" THEN "a" ELSE IF c = "B" THEN "b" ELSE c

LowerStr(s) == [i \in 1..Len(s) |-> Lower(s[i])]

\* Code-point order of the alphabet of the model
CharRank(c) ==
    CASE c = " " -> 0
      [] c = "#" -> 1
      [] c = "%" -> 2
      [] c = "," -> 3
      [] c = "0" -> 4
      [] c = "1" -> 5
      [] c = "A" -> 6
      [] c = "B" -> 7
      [] c = "_" -> 8
      [] c = "a" -> 9
      [] c = "b" -> 10
      [] c = "u" -> 11
      [] c = "w" -> 12
      [] c = "x" -> 13
      [] OTHER -> 14

\* s < t in the lexicographic order of strings
RECURSIVE StrLess(_, _)
StrLess(s, t) ==
    IF t = <<>> THEN FALSE
    ELSE IF s = <<>> THEN TRUE
    ELSE IF CharRank(Head(s)) # CharRank(Head(t))
         THEN CharRank(Head(s)) < CharRank(Head(t))
         ELSE StrLess(Tail(s), Tail(t))

\* SQL LIKE: "%" matches any run of characters, "_" any one character.
RECURSIVE Like(_, _)
Like(text, pat) ==
    IF pat = <<>> THEN text = <<>>
    ELSE IF Head(pat) = "%"
         THEN Like(text, Tail(pat)) \/ (text # <<>> /\ Like(Tail(text), pat))
    ELSE IF text = <<>> THEN FALSE
    ELSE (Head(pat) = "_" \/ Head(pat) = Head(text)) /\ Like(Tail(text), Tail(pat))

\* column.ilike(pattern): LIKE without regard to letter case
ILike(text, pat) == Like(LowerStr(text), LowerStr(pat))

\* str.split(",")
RECURSIVE Split(_, _)
Split(s, acc) ==
    IF s = <<>> THEN <<acc>>
    ELSE IF Head(s) = "," THEN <<acc>> \o Split(Tail(s), <<>>)
    ELSE Split(Tail(s), Append(acc, Head(s)))

SplitComma(s) == Split(s, <<>>)

\* datetime.fromisoformat: a one-digit string is the timestamp it names,
\* anything else raises ValueError (None here).
FromIsoFormat(s) ==
    IF Len(s) = 1 /\ s[1] \in {"0", "1"}
    THEN Some(IF s[1] = "0" THEN 0 ELSE 1)
    ELSE None

-----------------------------------------------------------------------------
(* Tasks, the store and the session *)

\* models.Task as the service fills it in (task_service.py, create_task)
Task(user_id, title, description, priority, due_date, tags, completed) ==
    [user_id |-> user_id, title |-> title, description |-> description,
     priority |-> priority, due_date |-> due_date, tags |-> tags,
     completed |-> completed, created_at |-> 0, updated_at |-> 0]

\* The store assigns both timestamps when the row is inserted.
StampCreate(t, time) == [t EXCEPT !.created_at = time, !.updated_at = time]

\* The store refreshes the updated timestamp when the row is written again.
Touch(t, time) == [t EXCEPT !.updated_at = time]

\* A store (the committed table, or the set of objects the session has
\* changed and not yet committed) maps every identifier to <<>> or <<row>>.
EmptyStore == [i \in Ids |-> None]

Row(s, i) == IF i \in Ids THEN s[i] ELSE None

Put(s, i, t) == [s EXCEPT ![i] = Some(t)]

Remove(s, i) == [s EXCEPT ![i] = None]

\* What a statement of the session sees: the session flushes its changed
\* objects before every query (autoflush), so a query reads the committed
\* rows overlaid with the uncommitted changes.
View == [i \in Ids |-> IF IsSome(db[i]) /\ IsSome(dirty[i]) THEN dirty[i] ELSE db[i]]

\* A write that leaves the timestamps alone
CommittedUnstamped(work, changed) == work

\* db.commit(): the rows the session changed are written, each with a fresh
\* updated timestamp, and the transaction is made durable.
Committed(work, changed) ==
    [i \in Ids |-> IF IsSome(work[i]) /\ i \in changed
                   THEN Some(Touch(Val(work[i]), now))
                   ELSE work[i]]

DirtyIds == {i \in Ids : IsSome(db[i]) /\ IsSome(dirty[i])}

\* A lookup by identifier alone, without the owner
LookupAnyOwner(s, user_id, task_id) == Row(s, task_id)

\* select(Task).where(Task.id == task_id, Task.user_id == user_id).first()
Lookup(s, user_id, task_id) ==
    IF IsSome(Row(s, task_id)) /\ Val(Row(s, task_id)).user_id = user_id
    THEN Row(s, task_id)
    ELSE None

get_task_by_id(user_id, task_id) == Lookup(View, user_id, task_id)

\* The outcome of the last call, as its caller sees it.
Result(op, user, id, ids, arg, ret, task, count, rows) ==
    [op |-> op, user |-> user, id |-> id, ids |-> ids, arg |-> arg, ret |-> ret,
     task |-> task, count |-> count, rows |-> rows]

NoResult == Result("-", "-", 0, <<>>, None, "-", None, 0, <<>>)

NoScan == [key |-> None, pages |-> <<>>]

-----------------------------------------------------------------------------
(* The single-task mutation engine *)

\* The arguments of create_task
CreateInput(title, description, priority, due_date, tags) ==
    [title |-> title, description |-> description, priority |-> priority,
     due_date |-> due_date, tags |-> tags]

\* A row that keeps the title as it was given
NewTaskUntrimmed(user_id, inp) ==
    StampCreate(Task(user_id, inp.title, inp.description, inp.priority,
                     inp.due_date, inp.tags, FALSE), now)

\* Checks that measure the title as given and let any due date pass
CreateInvalidUntrimmed(inp) ==
    \/ inp.title = <<>>
    \/ StrLen(inp.title) > TitleMax
    \/ (IsSome(inp.description) /\ Val(inp.description) # <<>>
            /\ StrLen(Val(inp.description)) > DescriptionMax)
    \/ inp.priority \notin {"low", "medium", "high"}

\* The checks of create_task, in the order of the code; TRUE when one raises.
CreateInvalid(inp) ==
    \/ inp.title = <<>> \/ StrLen(Strip(inp.title)) = 0
    \/ StrLen(Strip(inp.title)) > TitleMax
    \/ (IsSome(inp.description) /\ Val(inp.description) # <<>>
            /\ StrLen(Val(inp.description)) > DescriptionMax)
    \/ inp.priority \notin {"low", "medium", "high"}
    \/ (IsSome(inp.due_date) /\ Val(inp.due_date) < now)

NewTask(user_id, inp) ==
    StampCreate(Task(user_id, Strip(inp.title), inp.description, inp.priority,
                     inp.due_date, inp.tags, FALSE), now)

\* The uncommitted changes of the session after object i was set to t
MarkDirty(i, t) == IF Some(t) = db[i] THEN Remove(dirty, i) ELSE Put(dirty, i, t)

CreateTask(user_id, inp) ==
    /\ IF CreateInvalid(inp)
       THEN /\ res' = Result("create", user_id, 0, <<>>, Some(inp), "ValueError", None, 0, <<>>)
            /\ UNCHANGED <<db, dirty, nextId>>
       ELSE /\ nextId <= MaxCreate
            /\ db' = Committed(Put(View, nextId, NewTask(user_id, inp)), DirtyIds)
            /\ dirty' = EmptyStore
            /\ nextId' = nextId + 1
            /\ res' = Result("create", user_id, nextId, <<>>, Some(inp), "task",
                             db'[nextId], 0, <<>>)
    /\ UNCHANGED <<now, scan>>

GetTaskById(user_id, task_id) ==
    /\ res' = Result("get", user_id, task_id, <<>>, None,
                     IF IsSome(get_task_by_id(user_id, task_id)) THEN "task" ELSE "none",
                     get_task_by_id(user_id, task_id), 0, <<>>)
    /\ UNCHANGED <<db, dirty, nextId, now, scan>>

\* The arguments of update_task; a field that is None is not supplied.
UpdateInput(title, description, priority, due_date, tags, completed) ==
    [title |-> title, description |-> description, priority |-> priority,
     due_date |-> due_date, tags |-> tags, completed |-> completed]

\* An update that hands the task to another owner
ApplyUpdateReowning(task, inp) ==
    [err |-> FALSE,
     task |-> [task EXCEPT !.user_id = IF task.user_id = "A" THEN "B" ELSE "A"]]

\* The body of update_task after the lookup: the fields are checked and
\* assigned one after the other, and the first failing check raises, leaving
\* the assignments made before it on the object.
ApplyUpdate(task, inp) ==
    LET titleBad == IsSome(inp.title) /\
                    (Val(inp.title) = <<>> \/ StrLen(Strip(Val(inp.title))) = 0
                        \/ StrLen(Strip(Val(inp.title))) > TitleMax)
        t1 == IF IsSome(inp.title) /\ ~titleBad
              THEN [task EXCEPT !.title = Strip(Val(inp.title))] ELSE task
        descBad == IsSome(inp.description) /\ StrLen(Val(inp.description)) > DescriptionMax
        t2 == IF IsSome(inp.description) /\ ~descBad
              THEN [t1 EXCEPT !.description = inp.description] ELSE t1
        prioBad == IsSome(inp.priority) /\ Val(inp.priority) \notin {"low", "medium", "high"}
        t3 == IF IsSome(inp.priority) /\ ~prioBad
              THEN [t2 EXCEPT !.priority = Val(inp.priority)] ELSE t2
        dueBad == IsSome(inp.due_date) /\ Val(inp.due_date) < now
        t4 == IF IsSome(inp.due_date) /\ ~dueBad
              THEN [t3 EXCEPT !.due_date = inp.due_date] ELSE t3
        t5 == IF IsSome(inp.tags) THEN [t4 EXCEPT !.tags = Val(inp.tags)] ELSE t4
        t6 == IF IsSome(inp.completed) THEN [t5 EXCEPT !.completed = Val(inp.completed)] ELSE t5
    IN  IF titleBad THEN [err |-> TRUE, task |-> task]
        ELSE IF descBad THEN [err |-> TRUE, task |-> t1]
        ELSE IF prioBad THEN [err |-> TRUE, task |-> t2]
        ELSE IF dueBad THEN [err |-> TRUE, task |-> t3]
        ELSE [err |-> FALSE, task |-> t6]

\* A method that tells a task of another owner from a task that is not there
NotFoundRetLeaky(op, task_id) ==
    IF IsSome(Row(View, task_id)) THEN "forbidden"
    ELSE IF op = "delete" THEN "false" ELSE "none"

\* What a single-task method returns when its lookup finds nothing:
\* None (update_task, toggle_complete) or False (delete_task)
NotFoundRet(op, task_id) == IF op = "delete" THEN "false" ELSE "none"

UpdateTask(user_id, task_id, inp) ==
    LET found == get_task_by_id(user_id, task_id)
        r == ApplyUpdate(Val(found), inp)
    IN  /\ IF IsNone(found)
           THEN /\ res' = Result("update", user_id, task_id, <<>>, Some(inp),
                                 NotFoundRet("update", task_id), None, 0, <<>>)
                /\ UNCHANGED <<db, dirty>>
           ELSE IF r.err
           THEN /\ dirty' = MarkDirty(task_id, r.task)
                /\ res' = Result("update", user_id, task_id, <<>>, Some(inp), "ValueError", None, 0, <<>>)
                /\ UNCHANGED db
           ELSE /\ db' = Committed(Put(View, task_id, r.task), DirtyIds \cup {task_id})
                /\ dirty' = EmptyStore
                /\ res' = Result("update", user_id, task_id, <<>>, Some(inp), "task",
                                 db'[task_id], 0, <<>>)
        /\ UNCHANGED <<nextId, now, scan>>

DeleteTask(user_id, task_id) ==
    /\ IF IsNone(get_task_by_id(user_id, task_id))
       THEN /\ res' = Result("delete", user_id, task_id, <<>>, None,
                             NotFoundRet("delete", task_id), None, 0, <<>>)
            /\ UNCHANGED <<db, dirty>>
       ELSE /\ db' = Committed(Remove(View, task_id), DirtyIds \ {task_id})
            /\ dirty' = EmptyStore
            /\ res' = Result("delete", user_id, task_id, <<>>, None, "true", None, 0, <<>>)
    /\ UNCHANGED <<nextId, now, scan>>

ToggleComplete(user_id, task_id, completed) ==
    LET found == get_task_by_id(user_id, task_id)
    IN  /\ IF IsNone(found)
           THEN /\ res' = Result("toggle", user_id, task_id, <<>>, Some(completed),
                                 NotFoundRet("toggle", task_id), None, 0, <<>>)
                /\ UNCHANGED <<db, dirty>>
           ELSE /\ db' = Committed(Put(View, task_id, [Val(found) EXCEPT !.completed = completed]),
                                   DirtyIds \cup {task_id})
                /\ dirty' = EmptyStore
                /\ res' = Result("toggle", user_id, task_id, <<>>, Some(completed), "task",
                                 db'[task_id], 0, <<>>)
        /\ UNCHANGED <<nextId, now, scan>>

-----------------------------------------------------------------------------
(* The bulk operations *)

\* What one pass of the loop does to the task it found
BulkStep(work, task_id, action, priority) ==
    LET t == Val(work[task_id])
    IN  CASE action = "delete"   -> Remove(work, task_id)
          [] action = "complete" -> Put(work, task_id, [t EXCEPT !.completed = TRUE])
          [] action = "pending"  -> Put(work, task_id, [t EXCEPT !.completed = FALSE])
          [] action = "priority" -> Put(work, task_id, [t EXCEPT !.priority = priority])

\* The loop over task_ids, inside the open transaction: every lookup reads
\* what the earlier passes did (a deleted task is not found again), and the
\* first task that is not found raises.
RECURSIVE BulkLoop(_, _, _, _, _, _, _)
BulkLoop(work, user_id, task_ids, action, priority, count, touched) ==
    IF task_ids = <<>>
    THEN [ok |-> TRUE, work |-> work, count |-> count, touched |-> touched]
    ELSE IF IsNone(Lookup(work, user_id, Head(task_ids)))
    THEN [ok |-> FALSE, work |-> work, count |-> count, touched |-> touched]
    ELSE BulkLoop(BulkStep(work, Head(task_ids), action, priority), user_id,
                  Tail(task_ids), action, priority, count + 1,
                  touched \cup {Head(task_ids)})

\* A bulk method that commits pass by pass keeps, after a failure, what the
\* earlier passes did.
CommittedSoFar(r) == Committed(r.work, r.touched)

\* except Exception: db.rollback() -- the store is as it was committed last
RolledBack(r) == db

\* The try block of the four bulk methods
BulkRun(op, user_id, task_ids, action, priority) ==
    LET r == BulkLoop(View, user_id, task_ids, action, priority, 0, {})
    IN  IF r.ok
        THEN /\ db' = Committed(r.work, DirtyIds \cup r.touched)
             /\ dirty' = EmptyStore
             /\ res' = Result(op, user_id, 0, task_ids,
                              IF action = "priority" THEN Some(priority) ELSE None,
                              "count", None, r.count, <<>>)
        ELSE /\ db' = RolledBack(r)
             /\ dirty' = EmptyStore
             /\ res' = Result(op, user_id, 0, task_ids,
                              IF action = "priority" THEN Some(priority) ELSE None,
                              "NotFound", None, 0, <<>>)

BulkDelete(user_id, task_ids) ==
    /\ BulkRun("bulk_delete", user_id, task_ids, "delete", "")
    /\ UNCHANGED <<nextId, now, scan>>

BulkComplete(user_id, task_ids) ==
    /\ BulkRun("bulk_complete", user_id, task_ids, "complete", "")
    /\ UNCHANGED <<nextId, now, scan>>

BulkPending(user_id, task_ids) ==
    /\ BulkRun("bulk_pending", user_id, task_ids, "pending", "")
    /\ UNCHANGED <<nextId, now, scan>>

BulkPriorityChange(user_id, task_ids, priority) ==
    /\ IF priority \notin {"low", "medium", "high"}
       THEN /\ res' = Result("bulk_priority", user_id, 0, task_ids, Some(priority),
                             "ValueError", None, 0, <<>>)
            /\ UNCHANGED <<db, dirty>>
       ELSE BulkRun("bulk_priority", user_id, task_ids, "priority", priority)
    /\ UNCHANGED <<nextId, now, scan>>

-----------------------------------------------------------------------------
(* The query engine: get_tasks *)

\* The arguments of get_tasks; a filter that is None is not supplied.
QueryArgs(status, priority, due_date, tags, search, sort, sort_direction, page, limit) ==
    [status |-> status, priority |-> priority, due_date |-> due_date, tags |-> tags,
     search |-> search, sort |-> sort, sort_direction |-> sort_direction,
     page |-> page, limit |-> limit]

\* status.lower()
LowerWord(w) ==
    CASE w = "Pending" -> "pending"
      [] w = "Completed" -> "completed"
      [] w = "ALL" -> "all"
      [] OTHER -> w

StatusWhere(t, status) ==
    IF IsSome(status) /\ Val(status) # "" /\ LowerWord(Val(status)) # "all"
    THEN IF LowerWord(Val(status)) = "pending" THEN t.completed = FALSE
         ELSE IF LowerWord(Val(status)) = "completed" THEN t.completed = TRUE
         ELSE TRUE
    ELSE TRUE

PriorityWhere(t, priority) == IsSome(priority) => t.priority = Val(priority)

DueDateWhere(t, due_date) ==
    (IsSome(due_date) /\ IsSome(FromIsoFormat(Val(due_date))))
        => t.due_date = FromIsoFormat(Val(due_date))

\* Task.tags.any(tag)
TagsAny(t, tag) == \E k \in 1..Len(t.tags) : t.tags[k] = tag

\* for tag in tag_list: statement = statement.where(Task.tags.any(tag))
TagsWhere(t, tags) ==
    IsSome(tags) =>
        LET tag_list == SplitComma(Val(tags))
        IN  \A k \in 1..Len(tag_list) :
                Strip(tag_list[k]) # <<>> => TagsAny(t, Strip(tag_list[k]))

\* or_(Task.title.ilike(f"%{term}%"), Task.description.ilike(f"%{term}%"))
SearchWhere(t, search) ==
    (IsSome(search) /\ Strip(Val(search)) # <<>>) =>
        LET search_term == <<"%">> \o Strip(Val(search)) \o <<"%">>
        IN  \/ ILike(t.title, search_term)
            \/ (IsSome(t.description) /\ ILike(Val(t.description), search_term))

\* A statement that leaves the owner out
AnyOwnerWhere(t, user_id) == TRUE

\* select(Task).where(Task.user_id == user_id)
OwnerWhere(t, user_id) == t.user_id = user_id

\* The rows of the statement after all its where clauses, read from store
FilteredIn(store, user_id, q) ==
    {i \in Ids : /\ IsSome(store[i])
                 /\ OwnerWhere(Val(store[i]), user_id)
                 /\ StatusWhere(Val(store[i]), q.status)
                 /\ PriorityWhere(Val(store[i]), q.priority)
                 /\ DueDateWhere(Val(store[i]), q.due_date)
                 /\ TagsWhere(Val(store[i]), q.tags)
                 /\ SearchWhere(Val(store[i]), q.search)}

Filtered(user_id, q) == FilteredIn(View, user_id, q)

\* A count taken from the rows of the page instead of the whole statement
CountOfPage(user_id, q) ==
    LET n == Cardinality(Filtered(user_id, q)) - (q.page - 1) * q.limit
    IN  IF n < 0 THEN 0 ELSE IF n > q.limit THEN q.limit ELSE n

\* select(func.count()).select_from(statement.subquery())
TotalCount(user_id, q) == Cardinality(Filtered(user_id, q))

\* case((priority == "high", 1), (priority == "medium", 2), (priority == "low", 3))
PriorityOrder(t) ==
    CASE t.priority = "high" -> 1
      [] t.priority = "medium" -> 2
      [] t.priority = "low" -> 3

\* An order that puts the rows without due date first when descending
DueBeforeNullsFirstDesc(a, b, sort_direction) ==
    IF sort_direction = "asc"
    THEN IsSome(a.due_date) /\ (IsNone(b.due_date) \/ Val(a.due_date) < Val(b.due_date))
    ELSE IsSome(b.due_date) /\ (IsNone(a.due_date) \/ Val(a.due_date) > Val(b.due_date))

\* Task.due_date.asc().nulls_last() / Task.due_date.desc().nulls_last()
DueBefore(a, b, sort_direction) ==
    /\ IsSome(a.due_date)
    /\ \/ IsNone(b.due_date)
       \/ IF sort_direction = "asc" THEN Val(a.due_date) < Val(b.due_date)
          ELSE Val(a.due_date) > Val(b.due_date)

\* The order_by of the statement: TRUE when row a has to come before row b.
\* Rows with equal keys may come in either order.
Before(a, b, sort, sort_direction) ==
    IF sort = "title"
    THEN IF sort_direction = "asc" THEN StrLess(a.title, b.title) ELSE StrLess(b.title, a.title)
    ELSE IF sort = "updated"
    THEN IF sort_direction = "asc" THEN a.updated_at < b.updated_at
         ELSE a.updated_at > b.updated_at
    ELSE IF sort = "priority"
    THEN IF sort_direction = "asc" THEN PriorityOrder(a) < PriorityOrder(b)
         ELSE PriorityOrder(a) > PriorityOrder(b)
    ELSE IF sort = "due_date"
    THEN DueBefore(a, b, sort_direction)
    ELSE IF sort_direction = "asc" THEN a.created_at < b.created_at
         ELSE a.created_at > b.created_at

RECURSIVE Perms(_)
Perms(set) ==
    IF set = {} THEN {<<>>}
    ELSE UNION {{<<x>> \o p : p \in Perms(set \ {x})} : x \in set}

\* The orders in which the store may return the rows of the statement
OrderingsIn(store, user_id, q) ==
    {p \in Perms(FilteredIn(store, user_id, q)) :
        \A i, j \in 1..Len(p) :
            i < j => ~Before(Val(store[p[j]]), Val(store[p[i]]), q.sort, q.sort_direction)}

Orderings(user_id, q) == OrderingsIn(View, user_id, q)

\* statement.offset((page - 1) * limit).limit(limit)
Window(order, page, limit) ==
    LET offset == (page - 1) * limit
        left == Len(order) - offset
        n == IF left < 0 THEN 0 ELSE IF left > limit THEN limit ELSE left
    IN  [k \in 1..n |-> order[offset + k]]

NoFilters(q) ==
    /\ IsNone(q.status) /\ IsNone(q.priority) /\ IsNone(q.due_date)
    /\ IsNone(q.tags) /\ IsNone(q.search)

\* A caller that reads the pages 1, 2, ... of an unfiltered listing one
\* after the other keeps what each page held.
ScanKey(user_id, q) ==
    [user |-> user_id, sort |-> q.sort, sort_direction |-> q.sort_direction,
     limit |-> q.limit]

ScanAfter(user_id, q, rows) ==
    IF q.page = 1 THEN [key |-> Some(ScanKey(user_id, q)), pages |-> <<rows>>]
    ELSE IF scan.key = Some(ScanKey(user_id, q)) /\ q.page = Len(scan.pages) + 1
    THEN [key |-> scan.key, pages |-> Append(scan.pages, rows)]
    ELSE NoScan

GetTasks(user_id, q) ==
    /\ \E order \in Orderings(user_id, q) :
        res' = Result("get_tasks", user_id, 0, <<>>, Some(q), "page", None,
                      TotalCount(user_id, q), Window(order, q.page, q.limit))
    /\ UNCHANGED <<db, dirty, nextId, now, scan>>

\* The caller reads one unfiltered listing page by page, up to MaxPage pages.
ReadPage(user_id, q) ==
    /\ NoFilters(q)
    /\ \/ q.page = 1 /\ scan = NoScan
       \/ scan.key = Some(ScanKey(user_id, q)) /\ q.page = Len(scan.pages) + 1
    /\ \E order \in Orderings(user_id, q) :
        /\ res' = Result("get_tasks", user_id, 0, <<>>, Some(q), "page", None,
                         TotalCount(user_id, q), Window(order, q.page, q.limit))
        /\ scan' = ScanAfter(user_id, q, Window(order, q.page, q.limit))
    /\ UNCHANGED <<db, dirty, nextId, now>>

-----------------------------------------------------------------------------
(* The statistics *)

\* select(Task).where(Task.user_id == user_id), read from store
AllTasksIn(store, user_id) ==
    {i \in Ids : IsSome(store[i]) /\ Val(store[i]).user_id = user_id}

\* Statistics that count a completed task as overdue
StatisticsOverdueOfAll(store, user_id) ==
    LET all_tasks == AllTasksIn(store, user_id)
        total == Cardinality(all_tasks)
        completed == Cardinality({i \in all_tasks : Val(store[i]).completed})
        overdue == Cardinality({i \in all_tasks :
                        /\ IsSome(Val(store[i]).due_date)
                        /\ Val(Val(store[i]).due_date) < now})
    IN  <<total, completed, total - completed, overdue>>

\* Statistics that count a task due at the time of the call as overdue
StatisticsOverdueInclusive(store, user_id) ==
    LET all_tasks == AllTasksIn(store, user_id)
        total == Cardinality(all_tasks)
        completed == Cardinality({i \in all_tasks : Val(store[i]).completed})
        overdue == Cardinality({i \in all_tasks :
                        /\ IsSome(Val(store[i]).due_date)
                        /\ Val(Val(store[i]).due_date) <= now
                        /\ ~Val(store[i]).completed})
    IN  <<total, completed, total - completed, overdue>>

StatisticsIn(store, user_id) ==
    LET all_tasks == AllTasksIn(store, user_id)
        total == Cardinality(all_tasks)
        completed == Cardinality({i \in all_tasks : Val(store[i]).completed})
        overdue == Cardinality({i \in all_tasks :
                        /\ IsSome(Val(store[i]).due_date)
                        /\ Val(Val(store[i]).due_date) < now
                        /\ ~Val(store[i]).completed})
    IN  <<total, completed, total - completed, overdue>>

get_statistics(user_id) == StatisticsIn(View, user_id)

GetStatistics(user_id) ==
    /\ res' = Result("stats", user_id, 0, <<>>, None, "stats", None, 0,
                     get_statistics(user_id))
    /\ UNCHANGED <<db, dirty, nextId, now, scan>>


-----------------------------------------------------------------------------
(* The environment: the clock, the caller and the life of the session *)

\* Time passes between two calls.
Tick ==
    /\ now < MaxNow
    /\ now' = now + 1
    /\ UNCHANGED <<db, dirty, nextId, res, scan>>

\* The caller has read the outcome of its call.
Return ==
    /\ res # NoResult
    /\ res' = NoResult
    /\ UNCHANGED <<db, dirty, nextId, now, scan>>

\* The session is closed and a new one is opened: changes that were not
\* committed are lost.
CloseSession ==
    /\ dirty # EmptyStore
    /\ dirty' = EmptyStore
    /\ UNCHANGED <<db, nextId, now, res, scan>>

-----------------------------------------------------------------------------
(* The calls the model makes *)

S(str) == [i \in 1..Len(str) |-> str[i]]

CreateInputs ==
    { CreateInput(<<" ", "a">>, None, "medium", None, <<>>),
      CreateInput(<<"a", "b">>, Some(<<"b">>), "high", Some(0), << <<"w">>, <<"u">> >>),
      CreateInput(<<" ">>, None, "low", None, <<>>),
      CreateInput(<<"b">>, None, "urgent", None, <<>>) }

UpdateInputs ==
    { UpdateInput(Some(<<"b", " ">>), None, None, None, None, Some(TRUE)),
      UpdateInput(Some(<<"b">>), None, Some("urgent"), None, None, None) }

\* Identifiers a caller may name: those the store assigns and one it never does
CallIds == 1..(MaxCreate + 1)

RECURSIVE SeqsUpTo(_, _)
SeqsUpTo(set, n) ==
    IF n = 0 THEN {<<>>}
    ELSE LET shorter == SeqsUpTo(set, n - 1)
         IN  shorter \cup {Append(q, x) : q \in {p \in shorter : Len(p) = n - 1}, x \in set}

IdLists == SeqsUpTo(CallIds, MaxBulk)

BulkPriorities == {"low", "urgent"}

Init ==
    /\ db = EmptyStore
    /\ dirty = EmptyStore
    /\ nextId = 1
    /\ now = 0
    /\ res = NoResult
    /\ scan = NoScan

Idle == res = NoResult

Next ==
    \/ Idle /\ \E u \in Users, inp \in CreateInputs : CreateTask(u, inp)
    \/ Idle /\ \E u \in Users, i \in CallIds : GetTaskById(u, i)
    \/ Idle /\ \E u \in Users, i \in CallIds, inp \in UpdateInputs : UpdateTask(u, i, inp)
    \/ Idle /\ \E u \in Users, i \in CallIds : DeleteTask(u, i)
    \/ Idle /\ \E u \in Users, i \in CallIds, c \in BOOLEAN : ToggleComplete(u, i, c)
    \/ Idle /\ \E u \in Users, ids \in IdLists : BulkDelete(u, ids)
    \/ Idle /\ \E u \in Users, ids \in IdLists : BulkComplete(u, ids)
    \/ Idle /\ \E u \in Users, ids \in IdLists : BulkPending(u, ids)
    \/ Idle /\ \E u \in Users, ids \in IdLists, p \in BulkPriorities : BulkPriorityChange(u, ids, p)
    \/ Idle /\ \E u \in Users : GetStatistics(u)
    \/ Tick
    \/ Return
    \/ CloseSession

Spec == Init /\ [][Next]_vars

-----------------------------------------------------------------------------
(* The query engine over the stores it may find *)

\* Rows as create_task, update_task and toggle_complete leave them
SampleTasks ==
    { [Task("A", <<"a">>, None, "high", None, <<>>, FALSE)
            EXCEPT !.created_at = 0, !.updated_at = 0],
      [Task("A", <<"A", "b">>, Some(<<"b">>), "medium", Some(0), << <<"w">>, <<"u">> >>, TRUE)
            EXCEPT !.created_at = 0, !.updated_at = 1],
      [Task("A", <<"b">>, Some(<<"a">>), "low", Some(1), << <<"w">> >>, FALSE)
            EXCEPT !.created_at = 1, !.updated_at = 1],
      [Task("B", <<"a">>, None, "high", Some(0), << <<"w">>, <<"u">> >>, FALSE)
            EXCEPT !.created_at = 0, !.updated_at = 0],
      [Task("B", <<"b">>, None, "low", None, << <<"u">> >>, TRUE)
            EXCEPT !.created_at = 1, !.updated_at = 1] }

SampleStores == [Ids -> {None} \cup {Some(t) : t \in SampleTasks}]

Sorts == {"created", "title", "updated", "priority", "due_date"}
Directions == {"asc", "desc"}
Pages == 1..MaxPage
Limits == 1..MaxLimit

StatusArgs == {None, Some("pending"), Some("Completed")}
PriorityArgs == {None, Some("high")}
DueDateArgs == {None, Some(<<"0">>), Some(<<"x">>)}
TagsArgs == {None, Some(<<"w", ",", " ", "u">>), Some(<<"u", ",">>)}
SearchArgs == {None, Some(<<" ", "A">>), Some(<<"_">>)}

\* The <<page, limit>> pairs of the filtered listings: everything on one
\* page, and the second page of one-row pages
FilteredWindows == {<<1, MaxLimit>>, <<2, 1>>}

\* Listings without filter in every order, and filtered listings in the
\* default order
QueryCalls ==
    {QueryArgs(None, None, None, None, None, s, d, p, l) :
        s \in Sorts, d \in Directions, p \in Pages, l \in Limits}
    \cup
    {QueryArgs(st, pr, du, tg, se, "created", "desc", w[1], w[2]) :
        st \in StatusArgs, pr \in PriorityArgs, du \in DueDateArgs, tg \in TagsArgs,
        se \in SearchArgs, w \in FilteredWindows}

InitQuery ==
    /\ db \in SampleStores
    /\ dirty = EmptyStore
    /\ nextId = MaxId + 1
    /\ now = MaxNow
    /\ res = NoResult
    /\ scan = NoScan

NextQuery ==
    \/ Idle /\ \E u \in Users, q \in QueryCalls : GetTasks(u, q)
    \/ Idle /\ \E u \in Users : GetStatistics(u)
    \/ Return

SpecQuery == InitQuery /\ [][NextQuery]_vars

\* A caller that pages through unfiltered listings
ListingCalls == {q \in QueryCalls : NoFilters(q)}

NextScan ==
    \/ Idle /\ \E u \in Users, q \in ListingCalls : ReadPage(u, q)
    \/ Return

SpecScan == InitQuery /\ [][NextScan]_vars

-----------------------------------------------------------------------------
(* The field checks of create_task and update_task at their limits *)

\* n times the character c
Rep(c, n) == [k \in 1..n |-> c]

\* Arguments at and beyond every limit of create_task
CreateCases ==
    { CreateInput(<<"a">>, None, "low", None, <<>>),
      CreateInput(<<" ">> \o Rep("#", 2) \o <<" ">>, Some(Rep("#", 10)), "medium", Some(1),
                  << <<"w">> >>),
      CreateInput(<<"b">>, Some(<<>>), "high", Some(0), Rep(<<"w">>, TagsMax)),
      CreateInput(Rep("#", 2) \o <<"a">>, None, "low", None, <<>>),
      CreateInput(<<>>, None, "low", None, <<>>),
      CreateInput(<<" ", " ">>, None, "low", None, <<>>),
      CreateInput(<<"a">>, Some(Rep("#", 10) \o <<"a">>), "low", None, <<>>),
      CreateInput(<<"a">>, None, "High", None, <<>>),
      CreateInput(<<"a">>, None, "low", None, Rep(<<"w">>, TagsMax + 1)),
      CreateInput(<<"a">>, None, "low", None, << <<"#">> >>) }

\* Arguments at and beyond every limit of update_task
UpdateCases ==
    { UpdateInput(Some(<<" ", "b", " ">>), None, None, None, None, None),
      UpdateInput(Some(<<" ">>), None, None, None, None, Some(TRUE)),
      UpdateInput(Some(Rep("#", 2) \o <<"a">>), None, None, None, None, None),
      UpdateInput(Some(<<"c">>), Some(Rep("#", 10) \o <<"a">>), None, None, None, None),
      UpdateInput(None, None, Some("urgent"), None, None, None),
      UpdateInput(None, None, None, Some(0), None, None),
      UpdateInput(None, None, None, None, Some(Rep(<<"u">>, TagsMax + 1)), None),
      UpdateInput(None, None, None, None, Some(<< <<"#">> >>), None) }

\* One task is created; the calls that follow are checked against it.
NextValidate ==
    \/ Idle /\ \E u \in Users, inp \in CreateCases :
                (nextId = 1 \/ CreateInvalid(inp)) /\ CreateTask(u, inp)
    \/ Idle /\ \E u \in Users, i \in CallIds, inp \in UpdateCases : UpdateTask(u, i, inp)
    \/ Idle /\ \E u \in Users, i \in CallIds : DeleteTask(u, i)
    \/ Idle /\ \E u \in Users, i \in CallIds, c \in BOOLEAN : ToggleComplete(u, i, c)
    \/ Idle /\ \E u \in Users, ids \in IdLists : BulkDelete(u, ids)
    \/ Idle /\ \E u \in Users, ids \in IdLists : BulkComplete(u, ids)
    \/ Idle /\ \E u \in Users, ids \in IdLists : BulkPending(u, ids)
    \/ Idle /\ \E u \in Users, ids \in IdLists, p \in BulkPriorities : BulkPriorityChange(u, ids, p)
    \/ Tick
    \/ Return
    \/ CloseSession

SpecValidate == Init /\ [][NextValidate]_vars

-----------------------------------------------------------------------------
(* Export and import of tasks as JSON *)

\* A JSON value of a record: a key that is absent, null, a string, an
\* array of strings, true or false.  v holds the string or the array.
Absent == [kind |-> "absent", v |-> <<>>]
JNull == [kind |-> "null", v |-> <<>>]
JStr(str) == [kind |-> "str", v |-> <<str>>]
JList(list) == [kind |-> "list", v |-> list]
JBool(b) == [kind |-> IF b THEN "true" ELSE "false", v |-> <<>>]
StrOf(j) == j.v[1]

\* An item of the array: an object with the keys the import reads, or
\* something that is not an object
Item(title, description, priority, due_date, tags, completed) ==
    [dict |-> TRUE, title |-> title, description |-> description,
     priority |-> priority, due_date |-> due_date, tags |-> tags,
     completed |-> completed]
NotAnObject == [Item(Absent, Absent, Absent, Absent, Absent, Absent) EXCEPT !.dict = FALSE]

\* str.lower() of the words the model uses
WordLower(w) ==
    CASE w = "High" -> "high"
      [] w = "LOW" -> "low"
      [] w \in {"TRUE", "True"} -> "true"
      [] w \in {"FALSE", "False"} -> "false"
      [] w \in {"YES", "Yes"} -> "yes"
      [] w \in {"NO", "No"} -> "no"
      [] OTHER -> w

\* datetime.isoformat()
IsoFormat(d) == IF d = 0 THEN <<"0">> ELSE <<"1">>

\* ImportService._parse_datetime
ParseDatetime(j) ==
    IF j.kind = "str" /\ StrOf(j) # <<>> THEN FromIsoFormat(StrOf(j)) ELSE None

\* ImportService._parse_boolean
ParseBoolean(j) ==
    IF j.kind \in {"true", "false"} THEN j.kind = "true"
    ELSE IF j.kind = "str" THEN WordLower(StrOf(j)[1]) \in {"true", "1", "yes"}
    ELSE FALSE

\* The value is falsy in Python
Falsy(j) ==
    \/ j.kind \in {"absent", "null", "false"}
    \/ j.kind = "str" /\ StrOf(j) = <<>>
    \/ j.kind = "list" /\ j.v = <<>>

\* ImportService.validate_imported_task: "ok", "invalid" when it returns an
\* error, "raise" when a method is called on a value that does not have it
validate_imported_task(task_data) ==
    IF task_data.title.kind \notin {"absent", "str"} THEN "raise"
    ELSE IF task_data.title.kind = "absent" \/ Strip(StrOf(task_data.title)) = <<>>
    THEN "invalid"
    ELSE IF StrLen(Strip(StrOf(task_data.title))) > TitleMax THEN "invalid"
    ELSE IF task_data.description.kind = "str"
            /\ StrLen(StrOf(task_data.description)) > DescriptionMax
    THEN "invalid"
    ELSE IF task_data.priority.kind \notin {"absent", "str"} THEN "raise"
    ELSE IF task_data.priority.kind = "str"
            /\ WordLower(StrOf(task_data.priority)[1]) \notin {"low", "medium", "high"}
    THEN "invalid"
    ELSE IF ~Falsy(task_data.due_date) /\ IsNone(ParseDatetime(task_data.due_date))
    THEN "invalid"
    ELSE IF task_data.tags.kind = "list" /\ Len(task_data.tags.v) > TagsMax THEN "invalid"
    ELSE IF task_data.tags.kind = "list"
            /\ \E k \in 1..Len(task_data.tags.v) : StrLen(task_data.tags.v[k]) > TagMax
    THEN "invalid"
    ELSE IF task_data.completed.kind \in {"absent", "true", "false"} THEN "ok"
    ELSE IF task_data.completed.kind = "str"
            /\ StrOf(task_data.completed)[1] \in {"true", "false", "True", "False", "1", "0"}
    THEN "ok"
    ELSE "invalid"

\* The task_dict parse_json builds of a valid item; building it raises when
\* the description is null
TaskDictRaises(task) == task.description.kind = "null"

TaskDict(task) ==
    [title |-> Strip(StrOf(task.title)),
     description |-> IF task.description.kind = "str" /\ Strip(StrOf(task.description)) # <<>>
                     THEN Some(Strip(StrOf(task.description))) ELSE None,
     priority |-> IF task.priority.kind = "str" THEN WordLower(StrOf(task.priority)[1])
                  ELSE "medium",
     due_date |-> ParseDatetime(task.due_date),
     tags |-> IF task.tags.kind = "list" THEN task.tags.v ELSE <<>>,
     completed |-> task.completed]

\* An uploaded .json file: a JSON array of items, or a text that is not one
ArrayFile(items) == [array |-> TRUE, items |-> items]
NotAnArray == [array |-> FALSE, items |-> <<>>]

\* The loop of parse_json from item k on.  outcomes[k] tells what became of
\* item k: "notdict" and "invalid" add an error string and go on, "valid"
\* adds a task_dict; an exception leaves the loop ("raise") with one error
\* string, and the items after it are never looked at ("unread").
RECURSIVE ParseLoop(_, _, _, _)
ParseLoop(items, k, valid, outcomes) ==
    IF k > Len(items) THEN [valid |-> valid, outcomes |-> outcomes]
    ELSE IF ~items[k].dict
    THEN ParseLoop(items, k + 1, valid, Append(outcomes, "notdict"))
    ELSE IF validate_imported_task(items[k]) = "invalid"
    THEN ParseLoop(items, k + 1, valid, Append(outcomes, "invalid"))
    ELSE IF validate_imported_task(items[k]) = "raise" \/ TaskDictRaises(items[k])
    THEN [valid |-> valid,
          outcomes |-> outcomes \o <<"raise">> \o [j \in 1..(Len(items) - k) |-> "unread"]]
    ELSE ParseLoop(items, k + 1, Append(valid, [item |-> k, dict |-> TaskDict(items[k])]),
                   Append(outcomes, "valid"))

\* ImportService.parse_json
parse_json(file) ==
    IF file.array THEN ParseLoop(file.items, 1, <<>>, <<>>)
    ELSE [valid |-> <<>>, outcomes |-> <<>>]

\* The loop of import_tasks over the valid task_dicts: create_task is called
\* with title, description, priority, due_date and tags; when it raises, an
\* error string is added and the loop goes on.
RECURSIVE ImportLoop(_, _, _, _)
ImportLoop(user_id, valid, k, r) ==
    IF k > Len(valid) THEN r
    ELSE LET d == valid[k].dict
             inp == CreateInput(d.title, d.description, d.priority, d.due_date, d.tags)
         IN  IF CreateInvalid(inp)
             THEN ImportLoop(user_id, valid, k + 1,
                             [r EXCEPT !.outcomes[valid[k].item] = "rejected"])
             ELSE ImportLoop(user_id, valid, k + 1,
                             [work |-> IF r.id \in Ids
                                       THEN Put(r.work, r.id, NewTask(user_id, inp))
                                       ELSE r.work,
                              id |-> r.id + 1,
                              ids |-> Append(r.ids, r.id),
                              outcomes |-> [r.outcomes EXCEPT ![valid[k].item] = "created"]])

\* The error strings of the answer: one for each failed item, one for the
\* exception that ended the parsing, one for a file that is not an array
ErrorCount(file, outcomes) ==
    IF ~file.array THEN 1
    ELSE Cardinality({k \in 1..Len(outcomes) :
                        outcomes[k] \in {"notdict", "invalid", "raise", "rejected"}})

\* POST /tasks/import with a .json file
ImportTasks(user_id, file) ==
    LET p == parse_json(file)
        r == ImportLoop(user_id, p.valid, 1,
                        [work |-> View, id |-> nextId, ids |-> <<>>, outcomes |-> p.outcomes])
    IN  /\ r.id <= MaxId + 1
        /\ db' = IF r.ids # <<>> THEN Committed(r.work, DirtyIds) ELSE db
        /\ dirty' = IF r.ids # <<>> THEN EmptyStore ELSE dirty
        /\ nextId' = r.id
        /\ res' = Result("import", user_id, 0, r.ids, Some(file), "imported", None,
                         Len(r.ids),
                         [outcomes |-> r.outcomes, errors |-> ErrorCount(file, r.outcomes)])
        /\ UNCHANGED <<now, scan>>

\* ExportService.export_to_json, with the keys the import reads
export_to_json(tasks) ==
    [k \in 1..Len(tasks) |->
        Item(JStr(tasks[k].title),
             IF IsSome(tasks[k].description) THEN JStr(Val(tasks[k].description)) ELSE JNull,
             JStr(<<tasks[k].priority>>),
             IF IsSome(tasks[k].due_date) THEN JStr(IsoFormat(Val(tasks[k].due_date))) ELSE JNull,
             JList(tasks[k].tags),
             JBool(tasks[k].completed))]

\* The listing the export reads: get_tasks with its defaults
ExportLimit == 10000
ExportQuery == QueryArgs(None, None, None, None, None, "created", "desc", 1, ExportLimit)

\* The files GET /tasks/export?format=json may answer for user_id
ExportsIn(store, user_id) ==
    {ArrayFile(export_to_json([k \in 1..Len(Window(order, 1, ExportLimit)) |->
                                  Val(store[Window(order, 1, ExportLimit)[k]])])) :
        order \in OrderingsIn(store, user_id, ExportQuery)}

ExportTasks(user_id) ==
    /\ \E file \in ExportsIn(View, user_id) :
          res' = Result("export", user_id, 0, <<>>, Some(file), "file", None,
                        Len(file.items), <<>>)
    /\ UNCHANGED <<db, dirty, nextId, now, scan>>

\* Items of an upload
SampleItems ==
    { Item(JStr(<<" ", "a", " ">>), JStr(<<"b">>), JStr(<<"High">>), JStr(<<"1">>),
           JList(<< <<"w">> >>), JBool(TRUE)),
      Item(JStr(<<"b">>), Absent, Absent, Absent, Absent, Absent),
      Item(JNull, Absent, Absent, Absent, Absent, Absent),
      Item(JStr(<<"a">>), JNull, Absent, Absent, Absent, Absent),
      Item(JStr(<<"a">>), Absent, JStr(<<"urgent">>), Absent, Absent, Absent),
      Item(JStr(<<"a">>), Absent, Absent, JStr(<<"x">>), Absent, Absent),
      Item(JStr(<<"a">>), Absent, Absent, JStr(<<"0">>), Absent, Absent),
      Item(JStr(<<"a">>), Absent, Absent, Absent, JList(Rep(<<"w">>, TagsMax + 1)), Absent),
      Item(JStr(<<"a">>), Absent, Absent, Absent, Absent, JStr(<<"yes">>)),
      Item(JStr(<<"a">>), Absent, Absent, Absent, Absent, JStr(<<"TRUE">>)),
      Item(JStr(<<"a">>), Absent, Absent, Absent, Absent, JStr(<<"False">>)),
      Item(JStr(<<"a">>), Absent, Absent, Absent, Absent, JStr(<<"0">>)),
      Item(JStr(<<"a">>), Absent, Absent, Absent, Absent, JStr(<<"maybe">>)),
      NotAnObject }

MaxItems == 2

SampleFiles ==
    {NotAnArray} \cup {ArrayFile(items) : items \in SeqsUpTo(SampleItems, MaxItems)}

\* Rows to export: the sample rows and a completed task with a description
\* and without due date
ExportSamples ==
    SampleTasks \cup
    { [Task("B", <<"c">>, Some(<<"d">>), "medium", None, << <<"w">> >>, TRUE)
            EXCEPT !.created_at = 0, !.updated_at = 1] }

\* One task in the store, or none; the next create gets identifier 2
InitImport ==
    /\ db \in {s \in [Ids -> {None} \cup {Some(t) : t \in ExportSamples}] :
                \A i \in Ids : i > 1 => IsNone(s[i])}
    /\ dirty = EmptyStore
    /\ nextId = 2
    /\ now = MaxNow
    /\ res = NoResult
    /\ scan = NoScan

\* Uploads of the sample files and of the files an export answered
NextImport ==
    \/ Idle /\ \E u \in Users, file \in SampleFiles : ImportTasks(u, file)
    \/ Idle /\ \E u, o \in Users : \E file \in ExportsIn(View, o) : ImportTasks(u, file)
    \/ Idle /\ \E u \in Users : ExportTasks(u)
    \/ Return

SpecImport == InitImport /\ [][NextImport]_vars

-----------------------------------------------------------------------------
(* The HTTP boundary: the routes of routes/tasks.py *)

\* A request with a verified token: token is the owner the token names,
\* user_id the owner in the path, tail the path after /api/{user_id}/tasks
HttpRequest(method, user_id, tail, token, body) ==
    [method |-> method, user_id |-> user_id, tail |-> tail, token |-> token,
     body |-> body]

\* The routes of the router, in the order of their declaration
Routes ==
    << [method |-> "POST",   path |-> <<>>,                        handler |-> "create_task"],
       [method |-> "GET",    path |-> <<>>,                        handler |-> "get_tasks"],
       [method |-> "GET",    path |-> <<"{task_id}">>,             handler |-> "get_task"],
       [method |-> "PUT",    path |-> <<"{task_id}">>,             handler |-> "update_task"],
       [method |-> "DELETE", path |-> <<"{task_id}">>,             handler |-> "delete_task"],
       [method |-> "PATCH",  path |-> <<"{task_id}", "complete">>, handler |-> "toggle_task_complete"],
       [method |-> "GET",    path |-> <<"export">>,                handler |-> "export_tasks"],
       [method |-> "POST",   path |-> <<"import">>,                handler |-> "import_tasks"],
       [method |-> "GET",    path |-> <<"statistics">>,            handler |-> "get_statistics"],
       [method |-> "POST",   path |-> <<"bulk">>,                  handler |-> "bulk_operations"] >>

\* A path parameter matches any segment, a literal segment matches itself
PathMatches(path, tail) ==
    /\ Len(path) = Len(tail)
    /\ \A k \in 1..Len(path) : path[k] = "{task_id}" \/ path[k] = tail[k]

\* The router hands the request to the first route whose path and method
\* match; a path that matches with other methods only is answered 405, a
\* path no route matches 404.
Dispatch(method, tail) ==
    LET full == {k \in 1..Len(Routes) :
                    PathMatches(Routes[k].path, tail) /\ Routes[k].method = method}
    IN  IF full # {}
        THEN Routes[CHOOSE k \in full : \A j \in full : k <= j].handler
        ELSE IF \E k \in 1..Len(Routes) : PathMatches(Routes[k].path, tail)
        THEN "405"
        ELSE "404"

\* task_id: int = Path(...): the segment read as an integer, None when it
\* is not one
PathInt(seg) ==
    LET digits == <<"0", "1", "2", "3", "4", "5", "6", "7", "8", "9">>
    IN  IF \E d \in 1..Len(digits) : digits[d] = seg
        THEN Some((CHOOSE d \in 1..Len(digits) : digits[d] = seg) - 1)
        ELSE None

\* The handlers that take task_id from the path
TaskIdHandlers == {"get_task", "update_task", "delete_task", "toggle_task_complete"}

\* The request waits for its handler
Arrive(req) ==
    /\ res' = Result("request", req.user_id, 0, <<>>, Some(req), "pending", None, 0, <<>>)
    /\ UNCHANGED <<db, dirty, nextId, now, scan>>

Pending == res.op = "request"

\* What is answered before the body of a handler runs: no route, a path
\* parameter that does not validate, or a token of another owner; "" when
\* the body runs
Refusal(req) ==
    LET h == Dispatch(req.method, req.tail)
    IN  IF h \in {"404", "405"} THEN h
        ELSE IF h \in TaskIdHandlers /\ IsNone(PathInt(req.tail[1])) THEN "422"
        ELSE IF req.token # req.user_id THEN "403"
        ELSE ""

Refuse ==
    /\ Refusal(Val(res.arg)) # ""
    /\ res' = Result("refused", res.user, 0, <<>>, res.arg, Refusal(Val(res.arg)),
                     None, 0, <<>>)
    /\ UNCHANGED <<db, dirty, nextId, now, scan>>

\* The body of handler h runs for the pending request
Serves(h) ==
    /\ Pending
    /\ Refusal(Val(res.arg)) = ""
    /\ Dispatch(Val(res.arg).method, Val(res.arg).tail) = h

\* The task_id and the body of the pending request
PathId == Val(PathInt(Val(res.arg).tail[1]))
Body == Val(Val(res.arg).body)

\* except Exception: raise HTTPException(status_code=500): the clause also
\* catches the HTTPException the try block raised itself
ExceptException(raised) == 500

\* The status the handler answers with, from what the service returned
HttpStatus(r) ==
    CASE r.op = "refused" ->
            (CASE r.ret = "403" -> 403 [] r.ret = "404" -> 404
               [] r.ret = "405" -> 405 [] OTHER -> 422)
      [] r.op = "create" -> IF r.ret = "task" THEN 201 ELSE 400
      [] r.op \in {"get", "update", "toggle"} ->
            IF r.ret = "task" THEN 200
            ELSE IF r.ret = "ValueError" THEN 400
            ELSE ExceptException(404)
      [] r.op = "delete" -> IF r.ret = "true" THEN 200 ELSE ExceptException(404)
      [] r.op \in {"bulk_delete", "bulk_complete", "bulk_pending", "bulk_priority"} ->
            IF r.ret = "count" THEN 200
            ELSE IF r.ret = "ValueError" THEN 400
            ELSE 404
      [] OTHER -> 200

\* Requests whose bodies pass the request schemas
HttpCalls ==
    {<<"POST", <<>>, Some(CreateInput(<<"c">>, None, "medium", None, <<>>))>>,
     <<"POST", <<>>, Some(CreateInput(<<"c">>, None, "medium", Some(0), <<>>))>>,
     <<"GET", <<>>, Some(QueryArgs(None, None, None, None, None, "created", "desc", 1, MaxLimit))>>,
     <<"GET", <<"1">>, None>>, <<"GET", <<"2">>, None>>, <<"GET", <<"x">>, None>>,
     <<"GET", <<"export">>, None>>, <<"GET", <<"statistics">>, None>>,
     <<"GET", <<"1", "x">>, None>>, <<"DELETE", <<>>, None>>,
     <<"PUT", <<"1">>, Some(UpdateInput(Some(<<"d">>), None, None, None, None, None))>>,
     <<"PUT", <<"1">>, Some(UpdateInput(Some(<<"d">>), None, None, Some(0), None, None))>>,
     <<"PUT", <<"2">>, Some(UpdateInput(Some(<<"d">>), None, None, None, None, None))>>,
     <<"DELETE", <<"1">>, None>>, <<"DELETE", <<"2">>, None>>,
     <<"PATCH", <<"1", "complete">>, Some(TRUE)>>,
     <<"PATCH", <<"2", "complete">>, Some(FALSE)>>,
     <<"POST", <<"bulk">>, Some([action |-> "delete", task_ids |-> <<1>>, priority |-> ""])>>,
     <<"POST", <<"bulk">>, Some([action |-> "complete", task_ids |-> <<1, 2>>, priority |-> ""])>>,
     <<"POST", <<"bulk">>, Some([action |-> "pending", task_ids |-> <<1>>, priority |-> ""])>>,
     <<"POST", <<"bulk">>, Some([action |-> "priority", task_ids |-> <<2>>, priority |-> "low"])>>,
     <<"POST", <<"import">>,
       Some(ArrayFile(<<Item(JStr(<<"e">>), Absent, Absent, Absent, Absent, Absent)>>))>>}

HttpRequests ==
    {HttpRequest(c[1], u, c[2], t, c[3]) : c \in HttpCalls, u \in Users, t \in Users}

\* The three GET routes with one segment after /tasks share a disjunct: the
\* router decides which of their handlers a request reaches.
NextHttp ==
    \/ Idle /\ \E req \in HttpRequests : Arrive(req)
    \/ Pending /\ Refuse
    \/ Serves("create_task") /\ CreateTask(res.user, Body)
    \/ Serves("get_tasks") /\ GetTasks(res.user, Body)
    \/ \E h \in {"get_task", "export_tasks", "get_statistics"} :
          Serves(h) /\ CASE h = "get_task" -> GetTaskById(res.user, PathId)
                         [] h = "export_tasks" -> ExportTasks(res.user)
                         [] OTHER -> GetStatistics(res.user)
    \/ Serves("update_task") /\ UpdateTask(res.user, PathId, Body)
    \/ Serves("delete_task") /\ DeleteTask(res.user, PathId)
    \/ Serves("toggle_task_complete") /\ ToggleComplete(res.user, PathId, Body)
    \/ Serves("import_tasks") /\ ImportTasks(res.user, Body)
    \/ Serves("bulk_operations") /\ Body.action = "delete" /\ BulkDelete(res.user, Body.task_ids)
    \/ Serves("bulk_operations") /\ Body.action = "complete" /\ BulkComplete(res.user, Body.task_ids)
    \/ Serves("bulk_operations") /\ Body.action = "pending" /\ BulkPending(res.user, Body.task_ids)
    \/ Serves("bulk_operations") /\ Body.action = "priority"
            /\ BulkPriorityChange(res.user, Body.task_ids, Body.priority)
    \/ ~Idle /\ ~Pending /\ Return
    \/ CloseSession

SpecHttp == InitImport /\ [][NextHttp]_vars

-----------------------------------------------------------------------------
(* The export of an owner with many tasks *)

\* The listing export_tasks reads when the owner has n tasks: the rows of
\* the owner are numbered 1..n in the order of the statement, and the
\* listing is page 1 of that order with the limit of the export.
ExportListing(user_id, n) ==
    /\ res' = Result("export_listing", user_id, 0, <<>>, Some(ExportQuery), "page", None,
                     n, Window([k \in 1..n |-> k], ExportQuery.page, ExportQuery.limit))
    /\ UNCHANGED <<db, dirty, nextId, now, scan>>

ExportSpread == 60

\* Numbers of tasks around the limit of the export
TaskCounts == (ExportLimit - ExportSpread)..(ExportLimit + ExportSpread)

NextExportSize ==
    \/ Idle /\ \E u \in Users, n \in TaskCounts : ExportListing(u, n)
    \/ Return

SpecExportSize == Init /\ [][NextExportSize]_vars

-----------------------------------------------------------------------------
(* Two requests at a time, each with a session of its own *)

\* The bulk methods
BulkOps == {"bulk_delete", "bulk_complete", "bulk_pending", "bulk_priority"}

\* The action of the bulk method op
ActionOf(op) ==
    CASE op = "bulk_delete" -> "delete"
      [] op = "bulk_complete" -> "complete"
      [] op = "bulk_pending" -> "pending"
      [] OTHER -> "priority"

\* A request and its session: pc is the position of the call, passes the
\* number of passes the loop of a bulk method has made, work the
\* table as the transaction of the session sees it, touched the rows it
\* changed, loaded and task the row update_task read and the object it
\* assigned to, before the table when the request came, seq the place of
\* its commit among the commits.
Session(op, user_id, id, ids, arg) ==
    [op |-> op, user |-> user_id, id |-> id, ids |-> ids, arg |-> arg,
     pc |-> "start", passes |-> 0, work |-> db, touched |-> {}, loaded |-> None, task |-> None,
     before |-> db, seq |-> 0, ret |-> "-", out |-> <<>>]

\* The two requests come, while no other is served
Open(s1, s2) ==
    /\ res' = Result("sessions", "-", 0, <<>>, None, "open", None, 0, <<s1, s2>>)
    /\ UNCHANGED <<db, dirty, nextId, now, scan>>

\* Session k is at pc with a call of one of ops
At(k, ops, pc) ==
    /\ res.op = "sessions"
    /\ res.rows[k].op \in ops /\ res.rows[k].pc = pc

\* What a get_statistics or get_tasks call may read from table store: the
\* statistics, or the rows of the page in one of the orders of the statement
ObservationsIn(store, s) ==
    IF s.op = "stats" THEN {StatisticsIn(store, s.user)}
    ELSE {[j \in 1..Len(Window(order, Val(s.arg).page, Val(s.arg).limit)) |->
                Val(store[Window(order, Val(s.arg).page, Val(s.arg).limit)[j]])] :
            order \in OrderingsIn(store, s.user, Val(s.arg))}

\* get_statistics and get_tasks read the committed table
ReadStep(k) ==
    /\ At(k, {"stats", "get_tasks"}, "start")
    /\ \E out \in ObservationsIn(db, res.rows[k]) :
          res' = [res EXCEPT !.rows[k].pc = "done", !.rows[k].ret = "read",
                             !.rows[k].out = out]
    /\ UNCHANGED <<db, dirty, nextId, now, scan>>

\* update_task up to db.add: the lookup, the checks and the assignments
UpdateRead(k) ==
    LET s == res.rows[k]
        found == Lookup(db, s.user, s.id)
        r == ApplyUpdate(Val(found), Val(s.arg))
    IN  /\ At(k, {"update"}, "start")
        /\ res' = IF IsNone(found)
                  THEN [res EXCEPT !.rows[k].pc = "done", !.rows[k].ret = "none"]
                  ELSE IF r.err
                  THEN [res EXCEPT !.rows[k].pc = "done", !.rows[k].ret = "ValueError"]
                  ELSE [res EXCEPT !.rows[k].pc = "assigned", !.rows[k].loaded = found,
                                   !.rows[k].task = Some(r.task)]
        /\ UNCHANGED <<db, dirty, nextId, now, scan>>

\* The UPDATE the flush emits for an object: it sets the columns whose
\* value differs from the value the session loaded, and none when no column
\* differs.
Flushed(row, loaded, task) ==
    IF task = loaded THEN row
    ELSE Touch([row EXCEPT
                  !.title = IF task.title # loaded.title THEN task.title ELSE @,
                  !.description = IF task.description # loaded.description
                                  THEN task.description ELSE @,
                  !.priority = IF task.priority # loaded.priority THEN task.priority ELSE @,
                  !.due_date = IF task.due_date # loaded.due_date THEN task.due_date ELSE @,
                  !.tags = IF task.tags # loaded.tags THEN task.tags ELSE @,
                  !.completed = IF task.completed # loaded.completed
                                THEN task.completed ELSE @], now)

\* update_task from db.commit on: the flush, the commit and the refresh
UpdateCommit(k) ==
    LET s == res.rows[k]
    IN  /\ At(k, {"update"}, "assigned")
        /\ IsSome(db[s.id])
        /\ db' = Put(db, s.id, Flushed(Val(db[s.id]), Val(s.loaded), Val(s.task)))
        /\ res' = [res EXCEPT !.count = @ + 1, !.rows[k].pc = "done",
                              !.rows[k].ret = "task", !.rows[k].seq = res.count + 1,
                              !.rows[k].out = db'[s.id]]
        /\ UNCHANGED <<dirty, nextId, now, scan>>

\* A pass that commits what it did
AfterPassCommitted(table, work, touched) == Committed(work, touched)

\* The committed table after a pass of the loop of a bulk method: the pass
\* commits nothing
AfterPass(table, work, touched) == table

\* One pass of the loop of a bulk method, or the exception that ends it
BulkPass(k) ==
    LET s == res.rows[k]
        task_id == s.ids[s.passes + 1]
        work == BulkStep(s.work, task_id, ActionOf(s.op), Val(s.arg))
    IN  /\ At(k, BulkOps, "start")
        /\ s.passes < Len(s.ids)
        /\ IF IsNone(Lookup(s.work, s.user, task_id))
           THEN /\ res' = [res EXCEPT !.rows[k].pc = "done", !.rows[k].ret = "NotFound",
                                      !.rows[k].work = db]
                /\ db' = db
           ELSE /\ res' = [res EXCEPT !.rows[k].work = work, !.rows[k].passes = @ + 1,
                                      !.rows[k].touched = @ \cup {task_id}]
                /\ db' = AfterPass(db, work, s.touched \cup {task_id})
        /\ UNCHANGED <<dirty, nextId, now, scan>>

\* db.commit() after the loop
BulkCommit(k) ==
    LET s == res.rows[k]
    IN  /\ At(k, BulkOps, "start")
        /\ s.passes = Len(s.ids)
        /\ db' = Committed(s.work, s.touched)
        /\ res' = [res EXCEPT !.count = @ + 1, !.rows[k].pc = "done",
                              !.rows[k].ret = "count", !.rows[k].seq = res.count + 1]
        /\ UNCHANGED <<dirty, nextId, now, scan>>

\* A bulk call beside a reading call, and two updates of one task
ConcurrentCalls ==
    {<<Session(op, u, 0, ids, IF op = "bulk_priority" THEN Some("low") ELSE Some("")), r>> :
        op \in BulkOps, u \in Users, ids \in {<<1, 2>>, <<2, 1>>, <<1, 3>>},
        r \in {Session("stats", v, 0, <<>>, None) : v \in Users}
              \cup {Session("get_tasks", v, 0, <<>>,
                            Some(QueryArgs(None, None, None, None, None,
                                           "created", "desc", 1, MaxLimit))) : v \in Users}}
    \cup
    {<<Session("update", u, i, <<>>, Some(a)), Session("update", u, i, <<>>, Some(b))>> :
        u \in Users, i \in 1..2,
        a \in {UpdateInput(Some(<<"b">>), None, None, None, None, None),
               UpdateInput(Some(<<"a">>), None, Some("low"), None, None, None)},
        b \in {UpdateInput(Some(<<"a">>), None, None, None, None, None),
               UpdateInput(Some(<<"c">>), None, Some("high"), None, None, Some(TRUE))}}

\* One pair of requests on each of the tables
NextConcurrent ==
    \/ Idle /\ \E c \in ConcurrentCalls : Open(c[1], c[2])
    \/ \E k \in 1..2 : ReadStep(k)
    \/ \E k \in 1..2 : UpdateRead(k)
    \/ \E k \in 1..2 : UpdateCommit(k)
    \/ \E k \in 1..2 : BulkPass(k)
    \/ \E k \in 1..2 : BulkCommit(k)

SpecConcurrent == InitQuery /\ [][NextConcurrent]_vars

-----------------------------------------------------------------------------
(* Properties of the mutation engine and of the bulk operations *)

\* This step is a call of one of the methods in ops; res' is its outcome.
Called(ops) == res = NoResult /\ res'.op \in ops

\* Before the call, some listed identifier names no task of the caller.
Unresolvable(user_id, task_ids) ==
    \E k \in 1..Len(task_ids) : IsNone(Lookup(View, user_id, task_ids[k]))

\* The priority of a bulk priority change is one of the three levels.
PriorityArgValid(r) == IsNone(r.arg) \/ Val(r.arg) \in Priorities

\* Before the call, task_id names a task of another owner.
Foreign(user_id, task_id) ==
    IsSome(Row(db, task_id)) /\ Val(Row(db, task_id)).user_id # user_id

\* C1: a bulk call (delete, complete, pending, priority) whose list holds an
\* identifier that names no task of the caller signals not-found, and the
\* committed store is the same after the call as before it, wherever the
\* identifier stands in the list.
C1_BulkFailureLeavesStore ==
    [][(Called(BulkOps) /\ PriorityArgValid(res') /\ Unresolvable(res'.user, res'.ids))
            => (res'.ret = "NotFound" /\ db' = db)]_vars

\* A bulk delete failed on its second identifier after its first pass had
\* found, and marked for deletion, a task of the caller.
C1_Witness ==
    /\ res.op = "bulk_delete" /\ res.ret = "NotFound" /\ Len(res.ids) = 2
    /\ IsSome(Lookup(db, res.user, res.ids[1]))
    /\ IsNone(Lookup(db, res.user, res.ids[2]))

\* C2: a call of get_task_by_id, update_task, delete_task, toggle_complete or
\* a bulk method by an owner, naming a task of another owner, returns the
\* not-found outcome and leaves that task in the store with every field as
\* it was.
C2_OtherOwnerCallsAreNotFound ==
    [][/\ \A i \in Ids :
            (Called({"get", "update", "delete", "toggle"}) /\ res'.id = i
                    /\ Foreign(res'.user, i))
                => (res'.ret = (IF res'.op = "delete" THEN "false" ELSE "none")
                        /\ IsNone(res'.task) /\ db'[i] = db[i])
       /\ \A i \in Ids :
            (Called(BulkOps) /\ PriorityArgValid(res')
                    /\ (\E k \in 1..Len(res'.ids) : res'.ids[k] = i)
                    /\ Foreign(res'.user, i))
                => (res'.ret = "NotFound" /\ db'[i] = db[i])]_vars

\* Owner B called update_task with a valid title on a task of owner A that
\* is still in the store.
C2_Witness ==
    /\ res.op = "update" /\ res.user = "B" /\ res.ret = "none"
    /\ Val(res.arg).completed = Some(TRUE)
    /\ IsSome(Row(db, res.id)) /\ Val(Row(db, res.id)).user_id = "A"
    /\ ~Val(Row(db, res.id)).completed

\* C4: update_task, delete_task and toggle_complete return, for a task of
\* another owner, exactly what they return for an identifier that names no
\* task at all: the outcome is fixed by the method alone.
C4_ForeignLooksMissing ==
    [][(Called({"update", "delete", "toggle"})
            /\ IsNone(Lookup(View, res'.user, res'.id)))
        => (/\ res'.ret = (IF res'.op = "delete" THEN "false" ELSE "none")
            /\ IsNone(res'.task) /\ res'.count = 0 /\ res'.rows = <<>>
            /\ db' = db /\ dirty' = dirty)]_vars

\* delete_task was called on a task that exists and belongs to another owner.
C4_Witness ==
    /\ res.op = "delete" /\ res.ret = "false"
    /\ IsSome(Row(db, res.id)) /\ Val(Row(db, res.id)).user_id # res.user

-----------------------------------------------------------------------------
(* Properties of the query engine and of the statistics *)

Listed == res.op = "get_tasks"

\* The store without the rows of the owners other than user_id
OwnStore(user_id) ==
    [i \in Ids |-> IF IsSome(View[i]) /\ Val(View[i]).user_id = user_id
                   THEN View[i] ELSE None]

\* The absolute position, in the whole listing, of row k of the page
Position(k) == (Val(res.arg).page - 1) * Val(res.arg).limit + k

\* C3: the page, the total count and the statistics an owner receives are
\* those the owner would receive from the store holding only the owner's
\* tasks, so two stores that differ only in tasks of other owners give the
\* same outcomes; every listed task belongs to the caller.
C3_OutcomeIgnoresOtherOwners ==
    /\ Listed =>
        /\ \A k \in 1..Len(res.rows) : Val(View[res.rows[k]]).user_id = res.user
        /\ res.count = Cardinality(FilteredIn(OwnStore(res.user), res.user, Val(res.arg)))
        /\ \E order \in OrderingsIn(OwnStore(res.user), res.user, Val(res.arg)) :
                res.rows = Window(order, Val(res.arg).page, Val(res.arg).limit)
    /\ res.op = "stats" => res.rows = StatisticsIn(OwnStore(res.user), res.user)

\* Owner B listed tasks from a store that also holds a task of owner A and
\* received a row.
C3_Witness ==
    /\ Listed /\ res.user = "B" /\ Len(res.rows) > 0
    /\ \E i \in Ids : IsSome(View[i]) /\ Val(View[i]).user_id = "A"

RECURSIVE Flatten(_)
Flatten(pages) ==
    IF pages = <<>> THEN <<>> ELSE Head(pages) \o Flatten(Tail(pages))

\* The pages it takes to list n rows, limit rows a page
PagesNeeded(n, limit) == (n + limit - 1) \div limit

\* C5: once the caller has read the pages 1..ceil(N/L) of a listing of its N
\* tasks, each of its tasks stands on exactly one of these pages, exactly
\* once.
C5_PagesHoldEachTaskOnce ==
    (Listed /\ IsSome(scan.key)
        /\ Len(scan.pages) = PagesNeeded(Cardinality(AllTasksIn(View, res.user)),
                                         Val(scan.key).limit))
    => \A i \in AllTasksIn(View, res.user) :
            Cardinality({k \in 1..Len(Flatten(scan.pages)) :
                            Flatten(scan.pages)[k] = i}) = 1

\* C6: the total count of a listing is the number of rows of the whole
\* statement, the number of rows of page 1 read with limit = total count,
\* and the same for every page and limit.
C6_TotalCountIgnoresWindow ==
    Listed =>
        /\ \A order \in Orderings(res.user, Val(res.arg)) :
            /\ res.count = Len(order)
            /\ res.count > 0 => Len(Window(order, 1, res.count)) = res.count
        /\ \A p \in Pages, l \in Limits :
            TotalCount(res.user, [Val(res.arg) EXCEPT !.page = p, !.limit = l]) = res.count
        /\ Position(Len(res.rows)) <= res.count \/ res.rows = <<>>

\* A filtered listing read its second page of one row and reported more
\* rows than the page holds.
C6_Witness ==
    /\ Listed /\ ~NoFilters(Val(res.arg)) /\ Val(res.arg).page = 2
    /\ Len(res.rows) = 1 /\ res.count > 1

\* The tags a tags argument lists: the non-empty trimmed parts between commas
ListedTags(tags) ==
    {Strip(SplitComma(tags)[k]) : k \in 1..Len(SplitComma(tags))} \ {<<>>}

\* The filters other than the tags filter
OtherWhere(t, q) ==
    /\ StatusWhere(t, q.status) /\ PriorityWhere(t, q.priority)
    /\ DueDateWhere(t, q.due_date) /\ SearchWhere(t, q.search)

SeveralTags == Listed /\ IsSome(Val(res.arg).tags)
                  /\ Cardinality(ListedTags(Val(Val(res.arg).tags))) > 1

\* The tasks of the caller that pass the other filters and hold all
\* (every = TRUE) or one (every = FALSE) of the listed tags
TagMatches(every) ==
    {i \in AllTasksIn(View, res.user) :
        /\ OtherWhere(Val(View[i]), Val(res.arg))
        /\ IF every
           THEN \A tag \in ListedTags(Val(Val(res.arg).tags)) : TagsAny(Val(View[i]), tag)
           ELSE \E tag \in ListedTags(Val(Val(res.arg).tags)) : TagsAny(Val(View[i]), tag)}

\* C7: a listing with several tags returns exactly the tasks that pass the
\* other filters and hold at least one of the listed tags.
C7_TagsAnyOf ==
    SeveralTags =>
        /\ res.count = Cardinality(TagMatches(FALSE))
        /\ \A k \in 1..Len(res.rows) : res.rows[k] \in TagMatches(FALSE)

\* What the statement returns for several tags: exactly the tasks that pass
\* the other filters and hold every one of the listed tags.
TagsFilterKeepsAllOf ==
    SeveralTags =>
        /\ res.count = Cardinality(TagMatches(TRUE))
        /\ \A k \in 1..Len(res.rows) : res.rows[k] \in TagMatches(TRUE)

\* The rank the claim gives a priority: high first, low last
HighFirst(t) == CASE t.priority = "high" -> 1 [] t.priority = "medium" -> 2 [] OTHER -> 3

\* C8: a listing with sort = priority, sort_direction = desc has every high
\* task before every medium task before every low task.
C8_PriorityDescHighFirst ==
    (Listed /\ Val(res.arg).sort = "priority" /\ Val(res.arg).sort_direction = "desc")
    => \A j, k \in 1..Len(res.rows) :
            j < k => HighFirst(Val(View[res.rows[j]])) <= HighFirst(Val(View[res.rows[k]]))

Due(i) == Val(View[i]).due_date

\* C9: in a listing with sort = due_date, ascending or descending, a row
\* without due date stands after all rows with one, and the rows with a due
\* date stand in the requested direction.
C9_DueDateNullsLast ==
    (Listed /\ Val(res.arg).sort = "due_date") =>
        /\ \A k \in 1..Len(res.rows) :
            IsNone(Due(res.rows[k])) =>
                Position(k) > Cardinality({i \in Filtered(res.user, Val(res.arg)) :
                                              IsSome(Due(i))})
        /\ \A j, k \in 1..Len(res.rows) :
            (j < k /\ IsSome(Due(res.rows[j])) /\ IsSome(Due(res.rows[k]))) =>
                IF Val(res.arg).sort_direction = "asc"
                THEN Val(Due(res.rows[j])) <= Val(Due(res.rows[k]))
                ELSE Val(Due(res.rows[j])) >= Val(Due(res.rows[k]))

\* A descending listing by due date returned a later date, an earlier date
\* and a task without due date, in this order.
C9_Witness ==
    /\ Listed /\ Val(res.arg).sort = "due_date" /\ Val(res.arg).sort_direction = "desc"
    /\ Len(res.rows) = 3
    /\ IsSome(Due(res.rows[1])) /\ IsSome(Due(res.rows[2])) /\ IsNone(Due(res.rows[3]))
    /\ Val(Due(res.rows[1])) > Val(Due(res.rows[2]))

\* sub stands somewhere in str
Contains(str, sub) ==
    \E k \in 0..(Len(str) - Len(sub)) : SubSeq(str, k + 1, k + Len(sub)) = sub

\* The filters as the claim words them
StatusSays(t, status) ==
    IsSome(status) =>
        CASE LowerWord(Val(status)) = "pending" -> ~t.completed
          [] LowerWord(Val(status)) = "completed" -> t.completed
          [] OTHER -> TRUE

SearchSays(t, search) ==
    IsSome(search) =>
        \/ Contains(LowerStr(t.title), LowerStr(Strip(Val(search))))
        \/ IsSome(t.description)
            /\ Contains(LowerStr(Val(t.description)), LowerStr(Strip(Val(search))))

Satisfying ==
    {i \in AllTasksIn(View, res.user) :
        /\ StatusSays(Val(View[i]), Val(res.arg).status)
        /\ IsSome(Val(res.arg).priority) => Val(View[i]).priority = Val(Val(res.arg).priority)
        /\ SearchSays(Val(View[i]), Val(res.arg).search)
        /\ DueDateWhere(Val(View[i]), Val(res.arg).due_date)
        /\ TagsWhere(Val(View[i]), Val(res.arg).tags)}

\* C10: a listing returns exactly the tasks of the caller that satisfy all
\* the filters it was given: status by completion, priority by equality, the
\* search term by being contained, whatever the case, in the title or the
\* description.
C10_FiltersConjunctive ==
    Listed =>
        /\ res.count = Cardinality(Satisfying)
        /\ \A k \in 1..Len(res.rows) : res.rows[k] \in Satisfying

\* The same holds of the search terms without pattern character.
PlainTermsConjunctive ==
    (Listed /\ (IsSome(Val(res.arg).search) =>
                    \A k \in 1..Len(Val(Val(res.arg).search)) :
                        Val(Val(res.arg).search)[k] \notin {"_", "%"}))
    => /\ res.count = Cardinality(Satisfying)
       /\ \A k \in 1..Len(res.rows) : res.rows[k] \in Satisfying

-----------------------------------------------------------------------------
(* Properties of the statistics *)

Counted == res.op = "stats"

\* C11: whatever calls came before, the statistics of every owner satisfy
\* completed + pending = total and overdue <= pending.
C11_StatisticsAddUp ==
    /\ Counted => (res.rows[2] + res.rows[3] = res.rows[1] /\ res.rows[4] <= res.rows[3])
    /\ \A u \in Users :
        /\ get_statistics(u)[2] + get_statistics(u)[3] = get_statistics(u)[1]
        /\ get_statistics(u)[4] <= get_statistics(u)[3]

\* The statistics of an owner with a completed task and an overdue one
C11_Witness == Counted /\ res.rows[2] > 0 /\ res.rows[4] > 0

\* The tasks of the caller, as the session reads them
Mine == {i \in Ids : IsSome(View[i]) /\ Val(View[i]).user_id = res.user}

-----------------------------------------------------------------------------
(* Properties of the field checks *)

\* The title holds nothing but blanks
Blank(title) == \A k \in 1..Len(title) : title[k] = " "

\* An argument record of create_task with a field the contract forbids
FieldInvalid(inp) ==
    \/ Blank(inp.title)
    \/ StrLen(Strip(inp.title)) > 200
    \/ (IsSome(inp.description) /\ StrLen(Val(inp.description)) > 1000)
    \/ inp.priority \notin {"low", "medium", "high"}
    \/ (IsSome(inp.due_date) /\ Val(inp.due_date) < now)

TagsTooBig(tags) ==
    Len(tags) > TagsMax \/ \E k \in 1..Len(tags) : StrLen(tags[k]) > TagMax

\* The tags argument of the call whose outcome is res, if it has one
TagsGiven ==
    IF res.op = "create" THEN Some(Val(res.arg).tags)
    ELSE IF res.op = "update" THEN Val(res.arg).tags
    ELSE None

\* C14: every stored task has at most 10 tags of at most 50 characters
\* each, and a create_task or update_task call that is given more or longer
\* tags raises the validation error.
C14_TagBoundsHold ==
    /\ \A i \in Ids : IsSome(db[i]) => ~TagsTooBig(Val(db[i]).tags)
    /\ (IsSome(TagsGiven) /\ TagsTooBig(Val(TagsGiven))) => res.ret \in {"ValueError", "none"}

\* A title as the contract wants it stored
TitleWellFormed(title) ==
    /\ title # <<>>
    /\ title[1] # " " /\ title[Len(title)] # " "
    /\ StrLen(title) <= 200

\* C15: in every state, the title of every stored task, and of every task
\* the session holds changed, is non-empty, has no blank at either end and
\* is at most 200 characters long.
C15_TitlesWellFormed ==
    \A i \in Ids :
        /\ IsSome(db[i]) => TitleWellFormed(Val(db[i]).title)
        /\ IsSome(View[i]) => TitleWellFormed(Val(View[i]).title)

\* A task created from a title of 200 characters between two blanks was
\* renamed by an update whose title came with blanks on both sides.
C15_Witness ==
    /\ res.op = "update" /\ res.ret = "task"
    /\ Val(res.arg).title = Some(<<" ", "b", " ">>)
    /\ Val(res.task).title = <<"b">>
    /\ Val(res.task).description = Some(Rep("#", 10))

-----------------------------------------------------------------------------
(* Properties of the identity of a task *)

\* C16: no call changes the owner of a task, in the store or in the
\* session, and no call but create_task puts a row under an identifier
\* that had none: a task keeps its user_id and its id.
C16_OwnerAndIdFixed ==
    [][\A i \in Ids :
        /\ (IsSome(db[i]) /\ IsSome(db'[i])) =>
                Val(db'[i]).user_id = Val(db[i]).user_id
        /\ (IsSome(db[i]) /\ IsSome(dirty'[i])) =>
                Val(dirty'[i]).user_id = Val(db[i]).user_id
        /\ (IsNone(db[i]) /\ IsSome(db'[i])) =>
                (res'.op = "create" /\ res'.id = i /\ i = nextId)]_vars

\* A bulk priority change went through while the store held a task of
\* another owner.
C16_Witness ==
    /\ res.op = "bulk_priority" /\ res.ret = "count" /\ res.count > 0
    /\ \E i \in Ids : IsSome(db[i]) /\ Val(db[i]).user_id # res.user

-----------------------------------------------------------------------------
(* Properties of a bulk call that succeeds *)

\* i stands in the list
InList(i, task_ids) == \E k \in 1..Len(task_ids) : task_ids[k] = i

\* Before the call, every listed identifier names a task of the caller.
AllResolve(user_id, task_ids) ==
    \A k \in 1..Len(task_ids) : IsSome(Lookup(View, user_id, task_ids[k]))

\* The fields of a task but for its updated timestamp
Fields(t) == [t EXCEPT !.updated_at = 0]

\* What the action of the call makes of task t
Acted(r, t) ==
    CASE r.op = "bulk_complete" -> [t EXCEPT !.completed = TRUE]
      [] r.op = "bulk_pending"  -> [t EXCEPT !.completed = FALSE]
      [] r.op = "bulk_priority" -> [t EXCEPT !.priority = Val(r.arg)]
      [] OTHER -> t

\* The bulk call behind res' returned the number of listed identifiers,
\* did its action to every listed task and left every other task alone.
AppliedToListed ==
    /\ res'.ret = "count" /\ res'.count = Len(res'.ids)
    /\ \A i \in Ids :
        IF InList(i, res'.ids)
        THEN IF res'.op = "bulk_delete" THEN IsNone(db'[i])
             ELSE IsSome(db'[i]) /\ Fields(Val(db'[i])) = Fields(Acted(res', Val(db[i])))
        ELSE db'[i] = db[i]

\* C17: a bulk call whose identifiers all name tasks of the caller returns
\* the number of listed identifiers, does its action to exactly the listed
\* tasks and leaves every task that is not listed unchanged.
C17_BulkAppliesToListed ==
    [][(Called(BulkOps) /\ PriorityArgValid(res') /\ AllResolve(res'.user, res'.ids))
            => AppliedToListed]_vars

\* The same holds of lists without repetition, called on a session without
\* uncommitted changes.
BulkAppliesToDistinctListed ==
    [][(Called(BulkOps) /\ PriorityArgValid(res') /\ AllResolve(res'.user, res'.ids)
            /\ dirty = EmptyStore
            /\ \A j, k \in 1..Len(res'.ids) : res'.ids[j] = res'.ids[k] => j = k)
            => AppliedToListed]_vars

-----------------------------------------------------------------------------
(* Properties of the import and of the export *)

Imported == res.op = "import" /\ Val(res.arg).array

ImportedItems == Val(res.arg).items

\* C18: in an import of a file with several records, every record that
\* passes the import validation is created as a task of the importing owner,
\* whatever the records before and after it are, and every failed record
\* adds one error string without stopping the records after it.
C18_ValidRecordsAreImported ==
    Imported =>
        /\ \A k \in 1..Len(ImportedItems) :
              IF ImportedItems[k].dict /\ validate_imported_task(ImportedItems[k]) = "ok"
              THEN /\ res.rows.outcomes[k] = "created"
                   /\ \E j \in 1..Len(res.ids) :
                         /\ IsSome(db[res.ids[j]])
                         /\ Val(db[res.ids[j]]).user_id = res.user
                         /\ Val(db[res.ids[j]]).title = Strip(StrOf(ImportedItems[k].title))
              ELSE res.rows.outcomes[k] # "unread"
        /\ res.count + res.rows.errors = Len(ImportedItems)

\* Files whose records never raise and carry no due date in the past are
\* imported record by record.
ImportWithoutRaiseKeepsValid ==
    (Imported /\ \A k \in 1..Len(ImportedItems) :
                    res.rows.outcomes[k] \notin {"raise", "unread", "rejected"})
        => /\ \A k \in 1..Len(ImportedItems) :
                 res.rows.outcomes[k] = "created"
                    <=> (ImportedItems[k].dict
                            /\ validate_imported_task(ImportedItems[k]) = "ok")
           /\ res.count + res.rows.errors = Len(ImportedItems)

\* The tasks of an owner in a store
TasksOf(store, user_id) ==
    {i \in Ids : IsSome(store[i]) /\ Val(store[i]).user_id = user_id}

\* What a round trip is to keep of a task
Kept(t) == <<t.title, t.description, t.priority, t.tags, t.completed>>

\* The import behind res' read an export of the tasks of owner o, for an
\* owner who had no task
RoundTrip(o) ==
    /\ Idle /\ res'.op = "import"
    /\ o # res'.user
    /\ TasksOf(View, res'.user) = {}
    /\ Val(res'.arg) \in ExportsIn(View, o)

\* C19: exporting the N tasks of an owner to JSON and importing that JSON
\* as a fresh owner creates N new tasks whose title, description, priority,
\* tags and completed flag equal those of the originals.
C19_RoundTripKeepsTasks ==
    [][\A o \in Users :
          RoundTrip(o) =>
            /\ res'.count = Cardinality(TasksOf(View, o))
            /\ TasksOf(db', res'.user) = {res'.ids[k] : k \in 1..Len(res'.ids)}
            /\ \E f \in [TasksOf(View, o) -> TasksOf(db', res'.user)] :
                  /\ \A i, j \in TasksOf(View, o) : f[i] = f[j] => i = j
                  /\ \A i \in TasksOf(View, o) :
                        Kept(Val(db'[f[i]])) = Kept(Val(View[i]))]_vars

\* The round trip keeps title, description, priority and tags of a task that
\* is not completed, has a description and has no due date in the past.
RoundTripKeepsPendingDescribed ==
    [][\A o \in Users :
          (RoundTrip(o) /\ \A i \in TasksOf(View, o) :
                              /\ ~Val(View[i]).completed
                              /\ IsSome(Val(View[i]).description)
                              /\ (IsSome(Val(View[i]).due_date)
                                    => Val(Val(View[i]).due_date) >= now))
            => /\ res'.count = Cardinality(TasksOf(View, o))
               /\ \E f \in [TasksOf(View, o) -> TasksOf(db', res'.user)] :
                     /\ \A i, j \in TasksOf(View, o) : f[i] = f[j] => i = j
                     /\ \A i \in TasksOf(View, o) :
                           Kept(Val(db'[f[i]])) = Kept(Val(View[i]))]_vars

\* The forms of completed the import is to accept: a boolean, or one of the
\* strings true, false, 1, 0, yes, no in any letter case
CompletedForm(j) ==
    \/ j.kind \in {"true", "false"}
    \/ j.kind = "str"
          /\ WordLower(StrOf(j)[1]) \in {"true", "false", "1", "0", "yes", "no"}

\* The boolean such a form stands for
CompletedMeans(j) ==
    \/ j.kind = "true"
    \/ j.kind = "str" /\ WordLower(StrOf(j)[1]) \in {"true", "1", "yes"}

\* C20: the import validation accepts a record whose completed field is a
\* boolean or one of the strings true, false, 1, 0, yes, no in any letter
\* case, and coerces it to the boolean it stands for; no such record is
\* rejected for its completed value.
C20_CompletedFormsAccepted ==
    Imported =>
        \A k \in 1..Len(ImportedItems) :
            (/\ ImportedItems[k].dict
             /\ CompletedForm(ImportedItems[k].completed)
             /\ validate_imported_task([ImportedItems[k] EXCEPT !.completed = Absent]) = "ok")
                => /\ validate_imported_task(ImportedItems[k]) = "ok"
                   /\ res.rows.outcomes[k] # "invalid"
                   /\ ParseBoolean(ImportedItems[k].completed)
                        = CompletedMeans(ImportedItems[k].completed)

\* The forms validate_imported_task lets pass are coerced as they read.
ListedCompletedFormsAccepted ==
    Imported =>
        \A k \in 1..Len(ImportedItems) :
            (/\ ImportedItems[k].dict
             /\ \/ ImportedItems[k].completed.kind \in {"true", "false"}
                \/ ImportedItems[k].completed.kind = "str"
                     /\ StrOf(ImportedItems[k].completed)[1]
                            \in {"true", "false", "True", "False", "1", "0"}
             /\ validate_imported_task([ImportedItems[k] EXCEPT !.completed = Absent]) = "ok")
                => /\ validate_imported_task(ImportedItems[k]) = "ok"
                   /\ ParseBoolean(ImportedItems[k].completed)
                        = CompletedMeans(ImportedItems[k].completed)

-----------------------------------------------------------------------------
(* Properties of the timestamps *)

\* The tasks a successful update, toggle or bulk change behind res' wrote
Written ==
    IF res'.op \in {"update", "toggle"} /\ res'.ret = "task" THEN {res'.id}
    ELSE IF res'.op \in {"bulk_complete", "bulk_pending", "bulk_priority"}
            /\ res'.ret = "count"
    THEN {i \in Ids : InList(i, res'.ids)}
    ELSE {}

-----------------------------------------------------------------------------
(* Properties of the HTTP boundary *)

\* This step answers the pending request
Answers == Pending /\ res' # res

\* The pending request is method /tasks/<tail> by the owner of the path
OwnRequest(method, tail) ==
    /\ Pending
    /\ Val(res.arg).method = method /\ Val(res.arg).tail = tail
    /\ Val(res.arg).token = res.user

\* The pending request names, by an integer in its path, no task of the
\* owner who sends it
MissingTaskRequest ==
    /\ Pending /\ Val(res.arg).token = res.user
    /\ \E i \in 1..MaxId :
        /\ IsNone(Lookup(View, res.user, i))
        /\ \/ Val(res.arg).method \in {"GET", "PUT", "DELETE"}
                /\ PathInt(Val(res.arg).tail[1]) = Some(i) /\ Len(Val(res.arg).tail) = 1
           \/ Val(res.arg).method = "PATCH" /\ Len(Val(res.arg).tail) = 2
                /\ PathInt(Val(res.arg).tail[1]) = Some(i)
                /\ Val(res.arg).tail[2] = "complete"

\* The pending request is a bulk request that lists such an identifier
MissingBulkRequest ==
    /\ OwnRequest("POST", <<"bulk">>)
    /\ Unresolvable(res.user, Body.task_ids)

\* C22: a GET, PUT, DELETE or PATCH-complete request by the authenticated
\* owner for a task id that does not resolve under that owner is answered
\* with status 404, and a bulk request that contains such an id is answered
\* with 404.
C22_MissingTaskIs404 ==
    [][((MissingTaskRequest \/ MissingBulkRequest) /\ Answers)
            => HttpStatus(res') = 404]_vars

\* The bulk route does answer 404.
MissingBulkIs404 ==
    [][(MissingBulkRequest /\ Answers) => HttpStatus(res') = 404]_vars

\* The request is for one of the task endpoints: its method and path are
\* those of a declared route, with an integer where the route has task_id
EndpointRequest(req) ==
    \E k \in 1..Len(Routes) :
        /\ Routes[k].method = req.method
        /\ Len(Routes[k].path) = Len(req.tail)
        /\ \A j \in 1..Len(req.tail) :
            IF Routes[k].path[j] = "{task_id}" THEN IsSome(PathInt(req.tail[j]))
            ELSE Routes[k].path[j] = req.tail[j]

\* The token of the pending request names another owner than its path
Mismatch == Pending /\ Val(res.arg).token # Val(res.arg).user_id

\* The step called no core operation: the store and the session are as
\* before and the answer carries no task data
NothingCalled ==
    /\ UNCHANGED <<db, dirty, nextId>>
    /\ res'.op = "refused" /\ IsNone(res'.task) /\ res'.rows = <<>>

\* C23: every task endpoint answers 403 when the owner of the verified
\* token differs from the user_id of the path, and then calls no core
\* operation: the store is unchanged and no task data is returned.
C23_MismatchIs403 ==
    [][(Mismatch /\ Answers /\ EndpointRequest(Val(res.arg)))
            => (HttpStatus(res') = 403 /\ NothingCalled)]_vars

\* A request with such a token never reaches a core operation, and it is
\* answered 403 unless it is a GET of /tasks/export or /tasks/statistics.
MismatchCallsNothing ==
    [][(Mismatch /\ Answers)
            => /\ NothingCalled
               /\ (EndpointRequest(Val(res.arg))
                    /\ ~(Val(res.arg).method = "GET"
                            /\ Val(res.arg).tail \in {<<"export">>, <<"statistics">>}))
                    => HttpStatus(res') = 403]_vars

\* The pending request is a GET of /tasks/<name> by the owner of the path
OwnGet(name) == OwnRequest("GET", <<name>>)

\* C26: a GET by the authenticated owner of /api/{user_id}/tasks/statistics
\* is handled by the statistics handler and a GET of /api/{user_id}/tasks/export
\* by the export handler, with status 200 and the data of the owner; the
\* route /api/{user_id}/tasks/{task_id} captures neither.
C26_StatisticsAndExportAreRouted ==
    [][/\ (OwnGet("statistics") /\ Answers)
            => (res'.op = "stats" /\ HttpStatus(res') = 200
                    /\ res'.rows = get_statistics(res.user))
       /\ (OwnGet("export") /\ Answers)
            => (res'.op = "export" /\ HttpStatus(res') = 200
                    /\ Val(res'.arg) \in ExportsIn(View, res.user))]_vars

-----------------------------------------------------------------------------
(* Properties of the export *)

\* The listing behind res holds every one of the res.count rows of the
\* owner exactly once
ListingComplete ==
    /\ Len(res.rows) = res.count
    /\ \A k \in 1..res.count : res.rows[k] = k

\* C27: the export of an owner contains every task of that owner, each
\* exactly once, however many tasks the owner has.
C27_ExportHoldsEveryTask ==
    res.op = "export_listing" => ListingComplete

\* The export holds every task of an owner with no more tasks than the
\* limit of its listing.
ExportHoldsUpToLimit ==
    (res.op = "export_listing" /\ res.count <= ExportLimit) => ListingComplete

-----------------------------------------------------------------------------
(* Properties of a failed update and of the frame of the mutations *)

\* This step is an update call that raised on one of its fields
UpdateFailed == Called({"update"}) /\ res'.ret = "ValueError"

\* C28: an update call that fails on one of its fields changes no field of
\* the task: the reads that follow, through the same session too, return the
\* title, description, priority, due date, tags and completed flag the task
\* had before the call.
C28_FailedUpdateChangesNothing ==
    [][UpdateFailed => (db' = db /\ \A i \in Ids : View'[i] = View[i])]_vars

\* The failed update writes nothing to the committed table.
FailedUpdateLeavesTable ==
    [][UpdateFailed => db' = db]_vars

\* The fields of task t that inp does not supply are those of task old
Unsupplied(inp, old, t) ==
    /\ IsNone(inp.title) => t.title = old.title
    /\ IsNone(inp.description) => t.description = old.description
    /\ IsNone(inp.priority) => t.priority = old.priority
    /\ IsNone(inp.due_date) => t.due_date = old.due_date
    /\ IsNone(inp.tags) => t.tags = old.tags
    /\ IsNone(inp.completed) => t.completed = old.completed
    /\ t.user_id = old.user_id /\ t.created_at = old.created_at

\* The successful single-task call behind res' changed, in the committed
\* table, nothing but what it was asked to change.
FrameKept ==
    /\ \A i \in Ids : i # res'.id => db'[i] = db[i]
    /\ res'.op = "update" =>
            /\ IsSome(db[res'.id]) /\ IsSome(db'[res'.id])
            /\ Unsupplied(Val(res'.arg), Val(db[res'.id]), Val(db'[res'.id]))
    /\ res'.op = "toggle" =>
            /\ IsSome(db[res'.id]) /\ IsSome(db'[res'.id])
            /\ Fields(Val(db'[res'.id]))
                    = Fields([Val(db[res'.id]) EXCEPT !.completed = Val(res'.arg)])
    /\ res'.op = "create" => IsNone(db[res'.id])
    /\ res'.op = "delete" => IsNone(db'[res'.id])

\* This step is a single-task mutation that succeeded
Mutated ==
    /\ Called({"create", "update", "toggle", "delete"})
    /\ res'.ret \in {"task", "true"}

\* C29: a successful update or toggle of one task changes only the fields
\* supplied in the call, on that one task, and leaves every other task of
\* every owner unchanged; a successful create or delete changes no existing
\* task other than the one deleted.
C29_MutationsKeepFrame ==
    [][Mutated => FrameKept]_vars

\* The frame is kept by every call made on a session without uncommitted
\* changes.
CleanSessionKeepsFrame ==
    [][(Mutated /\ dirty = EmptyStore) => FrameKept]_vars

-----------------------------------------------------------------------------
(* Properties of a bulk call with repeated identifiers *)

\* The list without its repetitions, in the order of first occurrence
RECURSIVE Distinct(_)
Distinct(task_ids) ==
    IF task_ids = <<>> THEN <<>>
    ELSE LET front == Distinct(SubSeq(task_ids, 1, Len(task_ids) - 1))
             last == task_ids[Len(task_ids)]
         IN  IF InList(last, front) THEN front ELSE Append(front, last)

\* The table after the same call with the list task_ids
TableAfter(r, task_ids) ==
    LET run == BulkLoop(View, r.user, task_ids, ActionOf(r.op),
                        IF IsSome(r.arg) THEN Val(r.arg) ELSE "", 0, {})
    IN  Committed(run.work, DirtyIds \cup run.touched)

\* This step is a bulk call whose identifiers all name tasks of the caller
\* and one of them is listed more than once
RepeatedCall ==
    /\ Called(BulkOps) /\ PriorityArgValid(res')
    /\ AllResolve(res'.user, res'.ids)
    /\ Distinct(res'.ids) # res'.ids

\* C30: a bulk call whose list holds the same owned identifier more than
\* once returns the number of distinct tasks it changed and has the outcome,
\* success and final store, of the call with the repetitions removed, for
\* delete as for complete, pending and priority.
C30_RepeatedIdsCountOnce ==
    [][RepeatedCall =>
            /\ res'.ret = "count"
            /\ res'.count = Len(Distinct(res'.ids))
            /\ db' = TableAfter(res', Distinct(res'.ids))]_vars

\* Apart from the count it returns, a bulk complete, pending or priority
\* change with repetitions has the outcome of the call without them.
RepeatedIdsChangeOnce ==
    [][(RepeatedCall /\ res'.op # "bulk_delete") =>
            /\ res'.ret = "count"
            /\ db' = TableAfter(res', Distinct(res'.ids))]_vars

-----------------------------------------------------------------------------
(* Properties of requests that run at the same time *)

\* Session j is a bulk call and session k a reading call that has read
ReadBesideBulk(j, k) ==
    /\ res.op = "sessions"
    /\ res.rows[j].op \in BulkOps
    /\ res.rows[k].op \in {"stats", "get_tasks"} /\ res.rows[k].pc = "done"

\* C24: no query or statistics call that runs at the same time as a bulk
\* call, of the same or of another owner, observes a store in which only
\* some of the listed tasks are deleted or changed: it reads the state
\* before the bulk call or the state after its commit.
C24_ReadersSeeNoPartialBulk ==
    \A j, k \in 1..2 :
        ReadBesideBulk(j, k) =>
            \/ res.rows[k].out \in ObservationsIn(res.rows[j].before, res.rows[k])
            \/ /\ res.rows[j].ret = "count"
               /\ res.rows[k].out \in ObservationsIn(db, res.rows[k])

\* A call has read while a bulk call of the same owner had made a pass and
\* not committed, and what it read is not what the transaction of the bulk
\* call held.
C24_Witness ==
    \E j, k \in 1..2 :
        /\ ReadBesideBulk(j, k)
        /\ res.rows[j].pc = "start" /\ res.rows[j].passes = 1
        /\ res.rows[j].user = res.rows[k].user
        /\ res.rows[k].out \notin ObservationsIn(res.rows[j].work, res.rows[k])

\* Both sessions are updates, of a task their owner had, and both are done
BothUpdated ==
    /\ res.op = "sessions"
    /\ \A k \in 1..2 : res.rows[k].op = "update" /\ res.rows[k].pc = "done"
    /\ IsSome(Lookup(res.rows[1].before, res.rows[1].user, res.rows[1].id))

\* The stored task has, in every field both inputs supply, the value of last
LastWriteWins(stored, last, other) ==
    /\ (IsSome(last.title) /\ IsSome(other.title))
            => stored.title = Strip(Val(last.title))
    /\ (IsSome(last.description) /\ IsSome(other.description))
            => stored.description = last.description
    /\ (IsSome(last.priority) /\ IsSome(other.priority))
            => stored.priority = Val(last.priority)
    /\ (IsSome(last.due_date) /\ IsSome(other.due_date))
            => stored.due_date = last.due_date
    /\ (IsSome(last.tags) /\ IsSome(other.tags)) => stored.tags = Val(last.tags)
    /\ (IsSome(last.completed) /\ IsSome(other.completed))
            => stored.completed = Val(last.completed)

\* C25: when two update calls of one owner on one existing task interleave
\* their read and commit steps in any order, both return the task without
\* error and every field both calls set holds afterwards the value written
\* by the call that committed last.
C25_LastCommitWins ==
    BothUpdated =>
        /\ \A k \in 1..2 : res.rows[k].ret = "task"
        /\ \A k \in 1..2 :
              res.rows[k].seq = 2 =>
                  LastWriteWins(Val(db[res.rows[k].id]), Val(res.rows[k].arg),
                                Val(res.rows[3 - k].arg))

\* Both calls return the task, and the last commit wins when the second
\* call read the task after the first had committed.
LastCommitWinsInSequence ==
    BothUpdated =>
        /\ \A k \in 1..2 : res.rows[k].ret = "task"
        /\ \A k \in 1..2 :
              (res.rows[k].seq = 2 /\ res.rows[k].loaded # res.rows[3 - k].loaded) =>
                  LastWriteWins(Val(db[res.rows[k].id]), Val(res.rows[k].arg),
                                Val(res.rows[3 - k].arg))

====
